---- MODULE Spec2Model ----
(***************************************************************************)
(* BookLog+ recommendation pipeline (src/api/rec_engine.py) and the two    *)
(* HTTP handlers built on it (src/main.py).                                *)
(*                                                                         *)
(* A request is one invocation of get_recommendations or of                *)
(* get_quiz_recommendations with retry_count 0.  Both functions retry by   *)
(* calling themselves, so the model keeps the Python call stack: one frame *)
(* per active invocation, with the place in that frame from which the      *)
(* recursive call was made (inside the try block, or inside the            *)
(* `except Exception` handler).  The generative model is the environment:  *)
(* every call draws its behaviour (a raised error, or a response text)     *)
(* from a bounded set.                                                     *)
(***************************************************************************)
EXTENDS Naturals, Integers, Sequences, FiniteSets, TLC

VARIABLES
    fn,       \* the function the request invoked: "history" | "quiz"
    stack,    \* Python call stack of the recursive retries, top = last element
    sig,      \* what the last finished invocation handed to its caller
    calls,    \* client.chat.completions.create calls made so far
    resp,     \* behaviour of the model at the most recent call
    disp,     \* what the most recent attempt did with that behaviour
    result,   \* the value returned by the accepted attempt (recs), else << >>
    onlyBad,  \* every model call so far returned text that is not JSON
    status,   \* HTTP status of the handler's answer, 0 while unanswered
    body,     \* the handler's JSON body
    given,    \* the arguments the handler passed to the function
    first,    \* the messages of the request's first model call
    sent,     \* the messages of the most recent model call
    validated, \* prompt_data and to_read_data of the most recent invocation
    candidate, \* a candidate link handed to validate_goodreads_link
    verdict,  \* what validate_goodreads_link said of it, "none" before
    total,    \* model calls made through the module's client by all requests
    cur,      \* of two interleaved requests, the one whose thread runs
    other,    \* the local state of the request whose thread is suspended
    syn,      \* one invocation of generate_book_synopsis
    hq,       \* the /quiz-recommendations handler: request, step, profile row
    db,       \* the rows of the book_logs table
    op        \* the last operation on book_logs, with the rows before it

vars == <<fn, stack, sig, calls, resp, disp, result, onlyBad, status, body,
          given, first, sent, validated, candidate, verdict,
          total, cur, other, syn, hq, db, op>>

\* the variables of a recommendation request and of the link validator
pipelineVars ==
    <<fn, stack, sig, calls, resp, disp, result, onlyBad, status, body,
      given, first, sent, validated, candidate, verdict>>

-----------------------------------------------------------------------------
(* Bounds and program constants *)

\* retry_count >= 3 (rec_engine.py:69, :227)
MaxRetries == 3

\* len(recs) != 3 (rec_engine.py:126, :262)
RequiredLen == 3

\* longest JSON array the modelled responses contain
MaxListLen == 4

-----------------------------------------------------------------------------
(* Strings are sequences of characters, so that the link pattern is matched *)
(* character by character.                                                  *)

Digits == {"0", "1", "2", "3", "4", "5", "6", "7", "8", "9"}

HTTP == <<"h", "t", "t", "p">>
SCHEME_SEP == <<":", "/", "/">>
WWW == <<"w", "w", "w", ".">>
GOODREADS_PATH ==
    <<"g", "o", "o", "d", "r", "e", "a", "d", "s", ".", "c", "o", "m",
      "/", "b", "o", "o", "k", "/", "s", "h", "o", "w", "/">>

IsPrefix(p, s) == Len(p) <= Len(s) /\ SubSeq(s, 1, Len(p)) = p

\* the letters of the pattern in upper case, and str.lower on them
LowerOf ==
    [c \in {"H", "T", "P", "S", "W", "G", "O", "D", "R", "E", "A", "C", "M"} |->
        CASE c = "H" -> "h" [] c = "T" -> "t" [] c = "P" -> "p" [] c = "S" -> "s"
          [] c = "W" -> "w" [] c = "G" -> "g" [] c = "O" -> "o" [] c = "D" -> "d"
          [] c = "R" -> "r" [] c = "E" -> "e" [] c = "A" -> "a" [] c = "C" -> "c"
          [] c = "M" -> "m"]

Lower(s) == [i \in 1..Len(s) |-> IF s[i] \in DOMAIN LowerOf THEN LowerOf[s[i]] ELSE s[i]]

\* the pattern compiled with re.IGNORECASE
re_match_goodreads_pattern_ignorecase(s) ==
    \E opt_s \in {<< >>, <<"s">>}, opt_www \in {<< >>, WWW} :
        LET head == HTTP \o opt_s \o SCHEME_SEP \o opt_www \o GOODREADS_PATH
        IN  /\ IsPrefix(head, Lower(s))
            /\ Len(s) > Len(head)
            /\ s[Len(head) + 1] \in Digits

\* the pattern ending in \d* : no digit needed
re_match_goodreads_pattern_any_id(s) ==
    \E opt_s \in {<< >>, <<"s">>}, opt_www \in {<< >>, WWW} :
        IsPrefix(HTTP \o opt_s \o SCHEME_SEP \o opt_www \o GOODREADS_PATH, s)

\* r'^https?://(?:www\.)?goodreads\.com/book/show/\d+' under re.match:
\* anchored at the start, case-sensitive, anything may follow the first digit.
re_match_goodreads_pattern(s) ==
    \E opt_s \in {<< >>, <<"s">>}, opt_www \in {<< >>, WWW} :
        LET head == HTTP \o opt_s \o SCHEME_SEP \o opt_www \o GOODREADS_PATH
        IN  /\ IsPrefix(head, s)
            /\ Len(s) > Len(head)
            /\ s[Len(head) + 1] \in Digits

-----------------------------------------------------------------------------
(* JSON values as json.loads produces them.  A field value is a record     *)
(* [t, v]: its JSON type and its text (for arrays and objects, v is empty  *)
(* exactly when the container is empty).                                   *)

Absent == [t |-> "absent", v |-> << >>]
Null == [t |-> "null", v |-> << >>]
Str(s) == [t |-> "string", v |-> s]
Num(s) == [t |-> "number", v |-> s]
Arr(s) == [t |-> "array", v |-> s]
Obj(s) == [t |-> "object", v |-> s]

\* Python truth value of a JSON value (`not link`, rec_engine.py:32)
truthy(j) ==
    CASE j.t = "string" -> j.v # << >>
      [] j.t = "number" -> j.v # <<"0">>
      [] j.t = "array"  -> j.v # << >>
      [] j.t = "object" -> j.v # << >>
      [] OTHER -> FALSE

\* validate_goodreads_link: "True" | "False", or "TypeError" when re.match
\* is handed a value that is not a string
validate_goodreads_link(link) ==
    IF ~truthy(link) THEN "False"
    ELSE IF link.t # "string" THEN "TypeError"
    ELSE IF re_match_goodreads_pattern(link.v) THEN "True"
    ELSE "False"

-----------------------------------------------------------------------------
(* Elements of the parsed array.  An object carries its fields in f        *)
(* (Absent = the key is not there).  For a string, mem is the set of key   *)
(* names that occur in it as substrings; for an array, the key names that  *)
(* are among its items: that is what Python's `key in rec` tests on them.  *)

Required == <<"title", "author", "description">>

NoFields ==
    [title |-> Absent, author |-> Absent, description |-> Absent, link |-> Absent]

Object(t, a, d, l) ==
    [kind |-> "object",
     f |-> [title |-> t, author |-> a, description |-> d, link |-> l],
     mem |-> {}]

NonObject(k, m) == [kind |-> k, f |-> NoFields, mem |-> m]

\* an object to which the model added members beyond the four keys; each
\* is written as one text, key and value
WithExtras(rec, extras) == [rec EXCEPT !.mem = extras]
Extras == {"rating=5", "year=1965"}

SomeTitle == Str(<<"D", "u", "n", "e">>)
SomeAuthor == Str(<<"F", "H">>)
SomeDescription == Str(<<"s", "a", "n", "d">>)
EmptyString == Str(<< >>)

GoodLink == Str(HTTP \o <<"s">> \o SCHEME_SEP \o WWW \o GOODREADS_PATH \o <<"1", "2", "-", "t">>)
OtherDomainLink == Str(HTTP \o <<"s">> \o SCHEME_SEP \o <<"e", "x", ".", "c", "o", "m", "/", "n">>)

Objects ==
    { Object(SomeTitle, SomeAuthor, SomeDescription, Absent),
      Object(SomeTitle, SomeAuthor, SomeDescription, GoodLink),
      Object(SomeTitle, SomeAuthor, SomeDescription, OtherDomainLink),
      Object(SomeTitle, SomeAuthor, SomeDescription, EmptyString),
      Object(SomeTitle, SomeAuthor, SomeDescription, Null),
      Object(SomeTitle, SomeAuthor, SomeDescription, Num(<<"5">>)),
      Object(SomeTitle, SomeAuthor, SomeDescription, Arr(<<"1">>)),
      Object(SomeTitle, SomeAuthor, Absent, Absent),
      Object(EmptyString, SomeAuthor, SomeDescription, Absent),
      WithExtras(Object(SomeTitle, SomeAuthor, SomeDescription, OtherDomainLink), Extras) }

NonObjects ==
    { NonObject("null", {}),
      NonObject("number", {}),
      NonObject("string", {"title", "author", "description"}),
      NonObject("string", {"title", "author", "description", "link"}),
      NonObject("array", {"title", "author", "description"}) }

Elems == Objects \cup NonObjects

\* `key in rec` raises TypeError: the element is not a container
in_raises(rec) == rec.kind \in {"null", "number"}

\* `key in rec` on a container
contains(rec, key) ==
    IF rec.kind = "object" THEN rec.f[key] # Absent ELSE key \in rec.mem

\* all(key in rec for key in ["title", "author", "description"])
has_required(rec) == \A i \in 1..Len(Required) : contains(rec, Required[i])

\* One pass of the loop body for one element (rec_engine.py:131-139):
\*   "TypeError"  the membership test, rec["link"] or re.match raises
\*   "retry"      a required key is missing
\*   "strip"      the link fails the validator and is deleted
\*   "keep"       the element is left as it is
check_rec_strips_every_link(rec) ==
    IF in_raises(rec) THEN "TypeError"
    ELSE IF ~has_required(rec) THEN "retry"
    ELSE IF ~contains(rec, "link") THEN "keep"
    ELSE IF rec.kind # "object" THEN "TypeError"
    ELSE "strip"

check_rec(rec) ==
    IF in_raises(rec) THEN "TypeError"
    ELSE IF ~has_required(rec) THEN "retry"
    ELSE IF ~contains(rec, "link") THEN "keep"
    ELSE IF rec.kind # "object" THEN "TypeError"
    ELSE LET ok == validate_goodreads_link(rec.f["link"])
         IN  CASE ok = "TypeError" -> "TypeError"
               [] ok = "False" -> "strip"
               [] OTHER -> "keep"

\* the deletion left out
del_link_skipped(rec) == rec

\* the object built anew from the four keys of the contract, link left out
del_link_rebuilt(rec) ==
    Object(rec.f["title"], rec.f["author"], rec.f["description"], Absent)

\* del rec["link"]
del_link(rec) == [rec EXCEPT !.f = [@ EXCEPT !["link"] = Absent]]

\* The elements are visited in order; the first one that raises or lacks a
\* field ends the loop.  0 when the loop runs to its end.
first_stop(recs) ==
    LET stops == {i \in 1..Len(recs) : check_rec(recs[i]) \in {"TypeError", "retry"}}
    IN  IF stops = {} THEN 0
        ELSE CHOOSE i \in stops : \A j \in stops : i <= j

\* the loop without its link branch
clean_recs_unfiltered(recs) == recs

\* recs after the loop has run to its end
clean_recs(recs) ==
    [i \in 1..Len(recs) |->
        IF check_rec(recs[i]) = "strip" THEN del_link(recs[i]) ELSE recs[i]]

-----------------------------------------------------------------------------
(* Behaviours of one model call *)

NoResp == [kind |-> "none", top |-> "none", items |-> << >>]
\* client.chat.completions.create raises, or the response has no text
ModelError == [kind |-> "error", top |-> "none", items |-> << >>]
\* text that json.loads rejects
Malformed == [kind |-> "text", top |-> "none", items |-> << >>]
\* JSON text of a value that is not an array
NonList(t) == [kind |-> "json", top |-> t, items |-> << >>]
\* JSON text of an array
List(items) == [kind |-> "json", top |-> "list", items |-> items]

OtherLens == (0..MaxListLen) \ {RequiredLen}

ModelBehaviours ==
    {ModelError, Malformed}
    \cup {NonList(t) : t \in {"object", "string", "number", "null"}}
    \cup {List([i \in 1..n |-> e]) : n \in OtherLens, e \in Elems}
    \cup {List(items) : items \in [1..RequiredLen -> Elems]}

\* only short arrays rejected: len(recs) < 3
shape_rejected_short_only(r) == r.top # "list" \/ Len(r.items) < RequiredLen

\* not isinstance(recs, list) or len(recs) != 3
shape_rejected(r) == r.top # "list" \/ Len(r.items) # RequiredLen

\* What one attempt makes of the model's behaviour (rec_engine.py:107-145,
\* :240-281), before the function's own exception handling:
\*   "ModelError"  the call raised
\*   "retry"       contract violation: the function calls itself
\*   "TypeError"   the validation loop raised
\*   "accepted"    json.dumps(recs) is returned
attempt(r) ==
    IF r.kind = "error" THEN "ModelError"
    ELSE IF r.kind = "text" THEN "retry"
    ELSE IF shape_rejected(r) THEN "retry"
    ELSE LET i == first_stop(r.items)
         IN  IF i = 0 THEN "accepted" ELSE check_rec(r.items[i])

-----------------------------------------------------------------------------
(* Text.  A text is a sequence of tokens: a token is one character of data *)
(* ("LF" the newline, "BS" the backslash, "SQ" and "DQ" the quotes) or one *)
(* literal piece of a prompt template.                                     *)

LF == "LF"
BS == "BS"
SQ == "SQ"
DQ == "DQ"

RECURSIVE Join(_, _)
\* sep.join(texts)
Join(texts, sep) ==
    IF texts = << >> THEN << >>
    ELSE IF Len(texts) = 1 THEN texts[1]
    ELSE texts[1] \o sep \o Join(Tail(texts), sep)

RECURSIVE Split(_, _)
\* text.split(sep) for a one-character separator: the list of the pieces,
\* never empty
Split(text, sep) ==
    IF \A i \in 1..Len(text) : text[i] # sep THEN <<text>>
    ELSE LET i == CHOOSE k \in 1..Len(text) :
                      text[k] = sep /\ \A j \in 1..(k - 1) : text[j] # sep
         IN  <<SubSeq(text, 1, i - 1)>> \o Split(SubSeq(text, i + 1, Len(text)), sep)

RECURSIVE Escape(_, _)
\* the body of repr(str): backslash, newline and the chosen quote escaped
Escape(text, quote) ==
    IF text = << >> THEN << >>
    ELSE LET c == Head(text)
             e == IF c = BS THEN <<BS, BS>>
                  ELSE IF c = LF THEN <<BS, "n">>
                  ELSE IF c = quote THEN <<BS, quote>>
                  ELSE <<c>>
         IN  e \o Escape(Tail(text), quote)

Has(text, c) == \E i \in 1..Len(text) : text[i] = c

\* repr(str): single quotes, unless the text has a single and no double quote
py_repr(text) ==
    LET quote == IF Has(text, SQ) /\ ~Has(text, DQ) THEN DQ ELSE SQ
    IN  <<quote>> \o Escape(text, quote) \o <<quote>>

\* str(list of str), as an f-string interpolates a list
py_str_list(texts) ==
    <<"[">> \o Join([i \in 1..Len(texts) |-> py_repr(texts[i])], <<",", " ">>) \o <<"]">>

-----------------------------------------------------------------------------
(* Records of the store and their validation (src/data/schema.py) *)

RecordKeys == {"book_name", "author_name", "reflection", "user_id"}

\* fields of BooksSchema and of ToReadSchema
BooksFields == <<"book_name", "author_name", "reflection">>
ToReadFields == <<"book_name", "author_name">>

Mapping(b, a, r, u) ==
    [kind |-> "mapping",
     f |-> [book_name |-> b, author_name |-> a, reflection |-> r, user_id |-> u]]

\* an entry that is no mapping (a number, a string, null, a list)
NotAMapping ==
    [kind |-> "other",
     f |-> [book_name |-> Absent, author_name |-> Absent, reflection |-> Absent,
            user_id |-> Absent]]

\* the field with a validate.Length(min=1), which the schema does not have
string_field_ok_nonempty(j) == j.t = "string" /\ j.v # << >>

\* the field with required=False: a missing key passes
string_field_ok_optional(j) == j.t \in {"string", "absent"}

\* fields.String(required=True): the key is there, the value is not None and
\* is a str.  The empty string passes.
string_field_ok(j) == j.t = "string"

InRange(fields, k) == \E i \in 1..Len(fields) : fields[i] = k

\* load with unknown = INCLUDE: the record keeps the keys the schema does
\* not know
schema_load_keeps_unknown(fields, entry) ==
    IF entry.kind # "mapping" THEN [ok |-> FALSE, rec |-> NotAMapping]
    ELSE IF \E i \in 1..Len(fields) : entry.f[fields[i]].t # "string"
    THEN [ok |-> FALSE, rec |-> NotAMapping]
    ELSE [ok |-> TRUE, rec |-> entry]

\* Schema().load(entry) with unknown = EXCLUDE: ok = FALSE stands for the
\* ValidationError; the loaded record has the schema's fields and no other.
schema_load(fields, entry) ==
    IF entry.kind # "mapping" THEN [ok |-> FALSE, rec |-> NotAMapping]
    ELSE IF \E i \in 1..Len(fields) : ~string_field_ok(entry.f[fields[i]])
    THEN [ok |-> FALSE, rec |-> NotAMapping]
    ELSE [ok |-> TRUE,
          rec |-> [kind |-> "mapping",
                   f |-> [k \in RecordKeys |->
                            IF InRange(fields, k) THEN entry.f[k] ELSE Absent]]]

BooksSchema_load(entry) == schema_load(BooksFields, entry)
ToReadSchema_load(entry) == schema_load(ToReadFields, entry)

\* the loops without their handler: the error of load leaves the function
validation_caught_never(err) == FALSE

\* except ValidationError as err (rec_engine.py:79, :90)
validation_caught(err) == err = "ValidationError"

RECURSIVE validate_entries(_, _)
\* One of the two loops of get_recommendations (rec_engine.py:73-92): the
\* entries that load are appended in order; an entry that does not load is
\* skipped when its ValidationError is caught, else the error ends the loop.
validate_entries(fields, entries) ==
    IF entries = << >> THEN [exc |-> "none", data |-> << >>]
    ELSE LET v == schema_load(fields, Head(entries))
         IN  IF ~v.ok /\ ~validation_caught("ValidationError")
             THEN [exc |-> "ValidationError", data |-> << >>]
             ELSE LET rest == validate_entries(fields, Tail(entries))
                  IN  [exc |-> rest.exc,
                       data |-> (IF v.ok THEN <<v.rec>> ELSE << >>) \o rest.data]

-----------------------------------------------------------------------------
(* Prompts (rec_engine.py:147-203, :288-354).  The template's literal      *)
(* pieces are tokens; the line breaks of the template are LF tokens.       *)

PERSONA == "You are a lifelong librarian ... taste, tone, and interests."
HERE_READ == "Here's a list of books or personal reflections on books I've enjoyed:"
HERE_NEXT == "Here's a list of books I'm thinking of reading next:"
ANALYZE == "Carefully analyze the themes, tone, and emotional impact ..."
TASK_3_JSON == "Based on that, recommend EXACTLY 3 books ... valid JSON array containing EXACTLY 3 objects. Each object MUST follow this structure:"
KEY_TITLE == "    \"title\": \"Book Title\","
KEY_AUTHOR == "    \"author\": \"Author Name\","
KEY_DESCRIPTION == "    \"description\": \"Your 1-2 sentence explanation ...\","
KEY_LINK == "    \"link\": \"OPTIONAL - Only include if you are absolutely certain ...\""
RETURN_ONLY == "Return ONLY the JSON array ... MUST contain exactly 3 recommendations. The link field is optional ... omit the link field entirely rather than guessing."

\* f"{book['book_name']} by {book['author_name']}. The reflection on this
\* book is:\n {book['reflection']}"
reflection_line(book) ==
    book.f["book_name"].v \o <<" by ">> \o book.f["author_name"].v
    \o <<". The reflection on this book is:", LF, " ">> \o book.f["reflection"].v

\* f"{book['book_name']} by {book['author_name']}"
next_read_line(book) ==
    book.f["book_name"].v \o <<" by ">> \o book.f["author_name"].v

build_prompt_from_data(entries, to_read) ==
    LET reflections == [i \in 1..Len(entries) |-> reflection_line(entries[i])]
        next_reads == [i \in 1..Len(to_read) |-> next_read_line(to_read[i])]
    IN  <<PERSONA, LF>>
        \o <<HERE_READ, LF, " ">> \o py_str_list(reflections) \o <<LF, " ">>
        \o <<HERE_NEXT, LF, " ">> \o py_str_list(next_reads) \o <<LF, " ">>
        \o <<ANALYZE, LF>>
        \o <<TASK_3_JSON, LF>>
        \o <<"[", LF, "  {", LF, KEY_TITLE, LF, KEY_AUTHOR, LF, KEY_DESCRIPTION, LF,
             KEY_LINK, LF, "  },", LF, "  {...},", LF, "  {...}", LF, "]", LF, LF>>
        \o <<RETURN_ONLY>>

QUIZ_PERSONA == "You are an expert librarian who specializes in matching readers ..."
QUIZ_TASK == "Based on this reading personality profile, recommend EXACTLY 3 books that would be perfect matches:"
QUIZ_CONSIDER == "Consider these factors when making recommendations: 1. ... 5. ..."
QUIZ_3_JSON == "You MUST format your response as a valid JSON array containing EXACTLY 3 objects. Each object MUST follow this structure:"
QUIZ_KEY_DESCRIPTION == "    \"description\": \"A personalized 2-3 sentence explanation ...\""
QUIZ_RETURN_ONLY == "Return ONLY the JSON array ... MUST contain exactly 3 recommendations. Focus on books that truly match ..."

\* responses.get(key, 'Not specified'): the value, or the default when the
\* key is not there
get_or_default(j) == IF j = Absent THEN Str(<<"Not specified">>) ELSE j

\* a value as an f-string writes it
py_format(j) ==
    CASE j.t = "string" -> j.v
      [] j.t = "null" -> <<"None">>
      [] OTHER -> j.v

\* the lookup written as a subscript: a key that is not in the table raises
lookup_raises_on_unknown(key, table_keys) ==
    \/ key.t \in {"array", "object"}
    \/ key \notin {Str(<<k>>) : k \in table_keys}

\* guidance.get(key, default) raises only when the key cannot be hashed
lookup_raises(key, table_keys) == key.t \in {"array", "object"}

ContentKeys == {"light", "balanced", "deep"}
MotivationKeys == {"entertainment", "learning", "escape", "inspiration"}

\* content_guidance.get(content_preference, 'varied content based on mood')
content_desc(content_preference) ==
    CASE content_preference = Str(<<"light">>) -> "easy-to-read, entertaining books that provide escapism and fun"
      [] content_preference = Str(<<"balanced">>) -> "books that offer both entertainment and learning opportunities"
      [] content_preference = Str(<<"deep">>) -> "intellectually challenging books that offer profound insights and complex ideas"
      [] OTHER -> "varied content based on mood"

\* motivation_guidance.get(motivation, 'general reading satisfaction')
motivation_desc(motivation) ==
    CASE motivation = Str(<<"entertainment">>) -> "engaging plots, compelling characters, and immersive storytelling"
      [] motivation = Str(<<"learning">>) -> "educational content, skill development, and knowledge expansion"
      [] motivation = Str(<<"escape">>) -> "transporting narratives that provide adventure and fantasy"
      [] motivation = Str(<<"inspiration">>) -> "uplifting stories, motivational content, and personal growth themes"
      [] OTHER -> "general reading satisfaction"

\* build_quiz_prompt raises TypeError: one of the two lookups is handed a
\* list or a dict
build_quiz_prompt_raises(responses) ==
    \/ lookup_raises(get_or_default(responses.content_preference), ContentKeys)
    \/ lookup_raises(get_or_default(responses.motivation), MotivationKeys)

\* a profile: genres, favorite_movies and learning_interests are lists of
\* one-token strings, reading_time a one-token string, content_preference
\* and motivation JSON values
build_quiz_prompt(responses) ==
    LET content_preference == get_or_default(responses.content_preference)
        motivation == get_or_default(responses.motivation)
    IN
        <<QUIZ_TASK, LF, LF, "READING PREFERENCES:", LF>>
        \o <<"- Interested genres: ">>
        \o Join([i \in 1..Len(responses.genres) |-> <<responses.genres[i]>>], <<",", " ">>) \o <<LF>>
        \o <<"- Available reading time: ", responses.reading_time, LF>>
        \o <<"- Content preference: ">> \o py_format(content_preference)
        \o <<" (", content_desc(content_preference), ")", LF>>
        \o <<"- Primary motivation: ">> \o py_format(motivation)
        \o <<" (", motivation_desc(motivation), ")", LF>>
        \o <<"- Favorite movie genres: ">>
        \o Join([i \in 1..Len(responses.favorite_movies) |-> <<responses.favorite_movies[i]>>], <<",", " ">>) \o <<LF>>
        \o <<"- Learning interests: ">>
        \o Join([i \in 1..Len(responses.learning_interests) |-> <<responses.learning_interests[i]>>], <<",", " ">>) \o <<LF>>
        \o <<LF, QUIZ_CONSIDER, LF, LF, QUIZ_3_JSON, LF>>
        \o <<"[", LF, "  {", LF, KEY_TITLE, LF, KEY_AUTHOR, LF, QUIZ_KEY_DESCRIPTION, LF,
             "  },", LF, "  {...},", LF, "  {...}", LF, "]", LF, LF>>
        \o <<QUIZ_RETURN_ONLY>>

NoMessages == [system |-> << >>, user |-> << >>]

NoneValidated == [prompt_data |-> << >>, to_read_data |-> << >>]

\* the prompt sent whole as the system message
history_messages_unsplit(prompt_data, to_read_data) ==
    [system |-> build_prompt_from_data(prompt_data, to_read_data), user |-> << >>]

\* the prompt cut at its last line break instead of its first
history_messages_cut_at_last_break(prompt_data, to_read_data) ==
    LET prompt == build_prompt_from_data(prompt_data, to_read_data)
        strings == Split(prompt, LF)
    IN  [system |-> Join(SubSeq(strings, 1, Len(strings) - 1), <<LF>>),
         user |-> strings[Len(strings)]]

\* the two messages of get_recommendations (rec_engine.py:94-112): the
\* prompt of the validated records, cut at its first line break
history_messages(prompt_data, to_read_data) ==
    LET prompt == build_prompt_from_data(prompt_data, to_read_data)
        strings == Split(prompt, LF)
    IN  [system |-> strings[1], user |-> Join(Tail(strings), <<LF>>)]

\* the two messages of get_quiz_recommendations (rec_engine.py:231-248)
quiz_messages(quiz_responses) ==
    [system |-> <<QUIZ_PERSONA>>, user |-> build_quiz_prompt(quiz_responses)]

-----------------------------------------------------------------------------
(* The arguments of a request *)

Args(pe, tr, qr) == [past_entries |-> pe, to_read |-> tr, quiz_responses |-> qr]

Profile(g, rt, cp, m, fm, li) ==
    [genres |-> g, reading_time |-> rt, content_preference |-> cp,
     motivation |-> m, favorite_movies |-> fm, learning_interests |-> li]

NoProfile == Profile(<< >>, "", Absent, Absent, << >>, << >>)
SampleProfile ==
    Profile(<<"fiction", "mystery">>, "30min", Str(<<"light">>), Str(<<"escape">>),
            <<"drama">>, <<"history">>)

Dune == Str(<<"D", "u", "n", "e">>)
Herbert == Str(<<"F", "H">>)
Sand == Str(<<"s", "a", "n", "d">>)
Emma == Str(<<"E", "m", "m", "a">>)
Austen == Str(<<"J", "A">>)
UserId == Str(<<"u", "1">>)

\* rows as the tables hand them over: user_id comes with every row
SamplePast == <<Mapping(Dune, Herbert, Sand, UserId)>>
SampleToRead == <<Mapping(Emma, Austen, Absent, UserId)>>

\* Rows of every kind the tables or a caller can hand over: well-formed
\* with and without extra keys, with a line break and a quote in the
\* reflection, with an empty string, with a field missing, null or not a
\* string, and an entry that is no mapping.
Reflected == Str(<<"o", LF, "k", SQ>>)
RawRecords ==
    { Mapping(Dune, Herbert, Sand, UserId),
      Mapping(Emma, Austen, Reflected, Absent),
      Mapping(EmptyString, Herbert, Sand, UserId),
      Mapping(Dune, Herbert, Absent, UserId),
      Mapping(Dune, Num(<<"7">>), Sand, UserId),
      Mapping(Null, Herbert, Sand, UserId),
      NotAMapping }

RawToRead ==
    { Mapping(Emma, Austen, Absent, UserId),
      Mapping(Emma, Austen, Sand, UserId),
      Mapping(Dune, EmptyString, Absent, Absent),
      Mapping(Dune, Absent, Absent, UserId),
      NotAMapping }

\* Candidate links: a scheme, "://", a prefix of the host, a host, a path
\* and what follows it, in the cases of letters and the near misses that
\* tell the pattern's parts apart; and the values that are no text.
HTTP_UPPER == <<"H", "T", "T", "P">>
WWW_UPPER == <<"W", "W", "W", ".">>
GOODREADS_COM == <<"g", "o", "o", "d", "r", "e", "a", "d", "s", ".", "c", "o", "m">>
GOODREADS_COM_UPPER == <<"G", "O", "O", "D", "R", "E", "A", "D", "S", ".", "C", "O", "M">>
GOODREADS_COM_MIXED == <<"G", "o", "o", "d", "r", "e", "a", "d", "s", ".", "c", "o", "m">>
EXAMPLE_COM == <<"e", "x", "a", "m", "p", "l", "e", ".", "c", "o", "m">>
BOOK_SHOW == <<"/", "b", "o", "o", "k", "/", "s", "h", "o", "w", "/">>
AUTHOR_SHOW == <<"/", "a", "u", "t", "h", "o", "r", "/", "s", "h", "o", "w", "/">>

Schemes ==
    { HTTP, HTTP \o <<"s">>, HTTP_UPPER, HTTP_UPPER \o <<"S">>,
      <<"H", "t", "t", "p", "s">>, <<"f", "t", "p">>, << >> }
HostPrefixes == {<< >>, WWW, WWW_UPPER}
Hosts == {GOODREADS_COM, GOODREADS_COM_UPPER, GOODREADS_COM_MIXED, EXAMPLE_COM}
Paths == {BOOK_SHOW, AUTHOR_SHOW}
Tails ==
    { << >>, <<"1">>, <<"1", "2", "3", "4", "5", "-", "t", "i", "t", "l", "e">>,
      <<"a", "b", "c">>, <<"a", "1">>, <<"-", "1">> }
Leads == {<< >>, <<" ">>}

LinkText(lead, scheme, www, host, path, tail) ==
    lead \o scheme \o SCHEME_SEP \o www \o host \o path \o tail

CandidateLinks ==
    { Str(LinkText(l, sc, w, h, p, t)) :
        l \in Leads, sc \in Schemes, w \in HostPrefixes, h \in Hosts, p \in Paths, t \in Tails }
    \cup {Null, EmptyString, Num(<<"0">>), Num(<<"5">>)}

MaxEntries == 2
MaxToRead == 1

SeqsUpTo(S, n) == UNION {[1..k -> S] : k \in 0..n}

PastEntryLists == SeqsUpTo(RawRecords, MaxEntries)
ToReadLists == SeqsUpTo(RawToRead, MaxToRead)

Profiles ==
    { Profile(g, "30min", cp, m, <<"drama">>, <<"history">>) :
        g \in {<< >>, <<"fiction", "mystery">>},
        cp \in {Str(<<"light">>), Str(<<"deep">>), Str(<<"anything">>), EmptyString,
                Absent, Null, Arr(<<"light">>)},
        m \in {Str(<<"escape">>), Str(<<"fun">>), Absent, Obj(<<"escape">>)} }

ThreeValid ==
    <<Object(SomeTitle, SomeAuthor, SomeDescription, Absent),
      Object(SomeTitle, SomeAuthor, SomeDescription, GoodLink),
      Object(SomeTitle, SomeAuthor, SomeDescription, OtherDomainLink)>>

\* the model as the requests over varied inputs meet it: text that is not
\* JSON, a failed call, a valid array
FewBehaviours == {Malformed, ModelError, List(ThreeValid)}

NoContext == [fn |-> "none"]
NoSynopsis == [at |-> "none"]

\* The body of a POST to /quiz-recommendations as request.get_json() gives
\* it: None ("none"), an empty object, an array, or an object with user_id
\* and quiz_responses.  quiz_responses is absent, an object with the keys
\* `present` (the values are those of `profile`), or a number.
QuizResponses(kind, present, profile) ==
    [kind |-> kind, present |-> present, profile |-> profile]
Request(b, u, qr) == [body |-> b, user_id |-> u, quiz_responses |-> qr]

NoRow == [quiz_completed |-> FALSE]
Handler(at, req, write, row) == [at |-> at, req |-> req, write |-> write, row |-> row]

\* the handler has called get_quiz_recommendations
HandlerInvoked ==
    Handler("invoked",
            Request("object", UserId, QuizResponses("absent", {}, NoProfile)),
            "none", NoRow)

\* the last operation on the book_logs table: its kind, the caller, the
\* entry (save) or the key and the new fields (delete, update), the rows of
\* response.data, what it returned or that it raised, the status of the
\* handler, and the table as it was before
Operation(kind, user, entry, book, author, data, ret, st, before) ==
    [kind |-> kind, user |-> user, entry |-> entry, book |-> book, author |-> author,
     data |-> data, ret |-> ret, status |-> st, before |-> before]
NoOp == Operation("none", Absent, NotAMapping, Absent, Absent, << >>, "none", 0, << >>)

-----------------------------------------------------------------------------
(* The call stack.  A frame is one invocation: its retry_count and where   *)
(* it stands: "enter" (not yet past the retry guard), "called" (the model  *)
(* call has returned or raised), "try" (waiting for the recursive call it  *)
(* made from inside its try block) or "handler" (waiting for the recursive *)
(* call it made from `except Exception`).                                  *)

Frame(rc, at, args) == [rc |-> rc, at |-> at, args |-> args]
Top == stack[Len(stack)]
Pop == SubSeq(stack, 1, Len(stack) - 1)

\* a retry that hands the function's two lists over in the other order
retry_args_swapped(args) ==
    Args(args.to_read, args.past_entries, args.quiz_responses)

\* the arguments of the recursive call: get_recommendations(past_entries,
\* to_read, debug, retry_count + 1), get_quiz_recommendations(quiz_responses,
\* debug, retry_count + 1)
retry_args(args) ==
    Args(args.past_entries, args.to_read, args.quiz_responses)

\* the top frame calls the function again with retry_count + 1
\* the attempt counter kept in one place for every request, counting the
\* model calls of all of them
next_retry_count_shared(retry_count, shared) == shared

\* retry_count + 1: the counter is a parameter of the call, local to the
\* request (rec_engine.py:128, 135, 145, 264, 271, 281, 286)
next_retry_count(retry_count, shared) == retry_count + 1

Recurse(from) ==
    Append([stack EXCEPT ![Len(stack)].at = from],
           Frame(next_retry_count(Top.rc, total), "enter", retry_args(Top.args)))

Running == stack # << >>
Done == stack = << >>
Exceptions == {"ValueError", "TypeError", "ModelError"}

\* the guard off by one: retry_count > 3
history_retry_limit_late(retry_count) == retry_count > MaxRetries

\* if retry_count >= 3 (rec_engine.py:69)
history_retry_limit(retry_count) == retry_count >= MaxRetries
\* if retry_count >= 3 (rec_engine.py:227)
quiz_retry_limit(retry_count) == retry_count >= MaxRetries

\* The exceptions raised inside the outer try of get_quiz_recommendations
\* that `except Exception` catches (rec_engine.py:283): all of them.
\* get_recommendations has no such handler around its model call and loop.
quiz_catches(exc) == exc \in Exceptions

\* get_recommendations with the handler of its sibling
history_catches_everything(exc) == exc \in Exceptions

history_catches(exc) == FALSE

\* what the variables of the other parts of the program are while one
\* request of the pipeline is followed on its own
Elsewhere ==
    /\ total = 0
    /\ cur = 1
    /\ other = NoContext
    /\ syn = NoSynopsis
    /\ hq = HandlerInvoked
    /\ db = << >>
    /\ op = NoOp

\* The handler calls the function with retry_count 0: /recommend with the
\* rows of the two tables (main.py:270-275), /quiz-recommendations with the
\* profile of the request (main.py:625).
Start(PE, TR, QR) ==
    /\ fn \in {"history", "quiz"}
    /\ given \in IF fn = "history"
                 THEN {Args(pe, tr, NoProfile) : pe \in PE, tr \in TR}
                 ELSE {Args(<< >>, << >>, qr) : qr \in QR}
    /\ stack = <<Frame(0, "enter", given)>>
    /\ first = NoMessages
    /\ sent = NoMessages
    /\ validated = NoneValidated
    /\ candidate = Absent
    /\ verdict = "none"
    /\ Elsewhere
    /\ sig = "none"
    /\ calls = 0
    /\ resp = NoResp
    /\ disp = "none"
    /\ result = << >>
    /\ onlyBad = TRUE
    /\ status = 0
    /\ body = [key |-> "none", recs |-> << >>]

Init == Start({SamplePast}, {SampleToRead}, {SampleProfile})

\* The step of a frame after its model call returned or raised: the new
\* stack, signal, result and disposition.  `catches` says whether the
\* function catches an exception raised by the call or by the loop.
\*   "accepted"  return json.dumps(recs)
\*   "retry"     contract violation: recursive call from inside the try block
\*   "caught"    exception caught: recursive call from the except handler
\*   "raised"    exception leaves the function
Handle(a, caught) ==
    CASE a = "accepted" ->
            /\ stack' = Pop
            /\ sig' = "ret"
            /\ result' = clean_recs(resp.items)
            /\ disp' = "accepted"
            /\ resp' = resp
      [] a = "retry" ->
            /\ stack' = Recurse("try")
            /\ sig' = "none"
            /\ result' = << >>
            /\ disp' = "retry"
            /\ resp' = NoResp
      [] OTHER ->
            IF caught
            THEN /\ stack' = Recurse("handler")
                 /\ sig' = "none"
                 /\ result' = << >>
                 /\ disp' = "caught"
                 /\ resp' = NoResp
            ELSE /\ stack' = Pop
                 /\ sig' = a
                 /\ result' = << >>
                 /\ disp' = "raised"
                 /\ resp' = resp

\* What a waiting frame does with the return value or the exception of its
\* recursive call: an exception that arrives inside the try block of a
\* function that catches it starts one more recursive call from the
\* handler; everything else is handed to the caller.
Unwind(caught) ==
    IF sig \in Exceptions /\ Top.at = "try" /\ caught
    THEN stack' = Recurse("handler") /\ sig' = "none"
    ELSE stack' = Pop /\ sig' = sig

\* raise ValueError("Failed to get valid recommendations after multiple attempts")
HistoryExhausted ==
    /\ fn = "history" /\ Running /\ Top.at = "enter"
    /\ history_retry_limit(Top.rc)
    /\ stack' = Pop
    /\ sig' = "ValueError"
    /\ UNCHANGED <<fn, calls, resp, disp, result, onlyBad, status, body, given, first, sent, validated, candidate, verdict,
                   total, cur, other, syn, hq, db, op>>

\* get_recommendations past the guard, up to the model call (lines 72-118):
\* validation of the records, the prompt, client.chat.completions.create.
HistoryCallOn(B) ==
    /\ fn = "history" /\ Running /\ Top.at = "enter"
    /\ ~history_retry_limit(Top.rc)
    /\ LET p == validate_entries(BooksFields, Top.args.past_entries)
           t == validate_entries(ToReadFields, Top.args.to_read)
       IN  IF p.exc # "none" \/ t.exc # "none"
           THEN /\ stack' = Pop
                /\ sig' = "ValidationError"
                /\ UNCHANGED <<calls, resp, disp, onlyBad, first, sent, validated, total>>
           ELSE /\ validated' = [prompt_data |-> p.data, to_read_data |-> t.data]
                /\ sent' = history_messages(p.data, t.data)
                /\ first' = IF calls = 0 THEN sent' ELSE first
                /\ \E r \in B :
                    /\ resp' = r
                    /\ onlyBad' = (onlyBad /\ r = Malformed)
                /\ calls' = calls + 1
                /\ total' = total + 1
                /\ stack' = [stack EXCEPT ![Len(stack)].at = "called"]
                /\ disp' = "pending"
                /\ sig' = sig
    /\ UNCHANGED <<fn, result, status, body, given, candidate, verdict,
                   cur, other, syn, hq, db, op>>

HistoryCall == HistoryCallOn(ModelBehaviours)

\* get_recommendations after the model call (lines 118-145).  The call is
\* outside every try block and only JSONDecodeError is caught, so an error
\* of the call or of the loop leaves the function.
HistoryParse ==
    /\ fn = "history" /\ Running /\ Top.at = "called"
    /\ Handle(attempt(resp), history_catches(attempt(resp)))
    /\ UNCHANGED <<fn, calls, onlyBad, status, body, given, first, sent, validated, candidate, verdict,
                   total, cur, other, syn, hq, db, op>>

\* A frame of get_recommendations receives what its recursive call returned
\* or raised (`return get_recommendations(...)`, lines 128, 135, 145).
HistoryUnwind ==
    /\ fn = "history" /\ Running /\ Top.at \in {"try", "handler"} /\ sig # "none"
    /\ Unwind(history_catches(sig))
    /\ UNCHANGED <<fn, calls, resp, disp, result, onlyBad, status, body, given, first, sent, validated, candidate, verdict,
                   total, cur, other, syn, hq, db, op>>

\* raise ValueError("Failed to get valid quiz recommendations after multiple attempts")
QuizExhausted ==
    /\ fn = "quiz" /\ Running /\ Top.at = "enter"
    /\ quiz_retry_limit(Top.rc)
    /\ stack' = Pop
    /\ sig' = "ValueError"
    /\ UNCHANGED <<fn, calls, resp, disp, result, onlyBad, status, body, given, first, sent, validated, candidate, verdict,
                   total, cur, other, syn, hq, db, op>>

\* get_quiz_recommendations past the guard, up to the model call
\* (lines 231-254).
QuizCallOn(B) ==
    /\ fn = "quiz" /\ Running /\ Top.at = "enter"
    /\ ~quiz_retry_limit(Top.rc)
    /\ IF build_quiz_prompt_raises(Top.args.quiz_responses)
       THEN /\ stack' = Pop
            /\ sig' = "TypeError"
            /\ UNCHANGED <<calls, resp, disp, onlyBad, first, sent, total>>
       ELSE /\ sent' = quiz_messages(Top.args.quiz_responses)
            /\ first' = IF calls = 0 THEN sent' ELSE first
            /\ \E r \in B :
                /\ resp' = r
                /\ onlyBad' = (onlyBad /\ r = Malformed)
            /\ calls' = calls + 1
            /\ total' = total + 1
            /\ stack' = [stack EXCEPT ![Len(stack)].at = "called"]
            /\ disp' = "pending"
            /\ sig' = sig
    /\ UNCHANGED <<fn, result, status, body, given, validated, candidate, verdict,
                   cur, other, syn, hq, db, op>>

QuizCall == QuizCallOn(ModelBehaviours)

\* get_quiz_recommendations after the model call (lines 254-286).  The call
\* and the whole parse step are inside try ... except Exception: a raised
\* error is caught and the function calls itself from the handler.
QuizParse ==
    /\ fn = "quiz" /\ Running /\ Top.at = "called"
    /\ Handle(attempt(resp), quiz_catches(attempt(resp)))
    /\ UNCHANGED <<fn, calls, onlyBad, status, body, given, first, sent, validated, candidate, verdict,
                   total, cur, other, syn, hq, db, op>>

\* A frame of get_quiz_recommendations receives what its recursive call
\* returned or raised.  The recursive calls of lines 264, 271 and 281 are
\* made inside the outer try block, so the ValueError of an exhausted
\* callee is caught by `except Exception` (line 283) and the frame calls
\* the function once more (line 286).
QuizUnwind ==
    /\ fn = "quiz" /\ Running /\ Top.at \in {"try", "handler"} /\ sig # "none"
    /\ Unwind(quiz_catches(sig))
    /\ UNCHANGED <<fn, calls, resp, disp, result, onlyBad, status, body, given, first, sent, validated, candidate, verdict,
                   total, cur, other, syn, hq, db, op>>

-----------------------------------------------------------------------------
(* The HTTP handlers' answer (src/main.py) *)

\* /recommend, lines 273-288: 200 with the parsed array; ValueError and
\* every other exception answer 500 with an "error" body.
recommend_answer(outcome, recs) ==
    IF outcome = "ret"
    THEN [status |-> 200, body |-> [key |-> "recommendations", recs |-> recs]]
    ELSE [status |-> 500, body |-> [key |-> "error", recs |-> << >>]]

\* /quiz-recommendations, lines 623-637: ValueError answers 500 with an
\* "error" body, any other exception 500 with a "message" body.
quiz_answer(outcome, recs) ==
    IF outcome = "ret"
    THEN [status |-> 200, body |-> [key |-> "recommendations", recs |-> recs]]
    ELSE IF outcome = "ValueError"
    THEN [status |-> 500, body |-> [key |-> "error", recs |-> << >>]]
    ELSE [status |-> 500, body |-> [key |-> "message", recs |-> << >>]]

recommend ==
    /\ fn = "history" /\ Done /\ status = 0
    /\ status' = recommend_answer(sig, result).status
    /\ body' = recommend_answer(sig, result).body
    /\ UNCHANGED <<fn, stack, sig, calls, resp, disp, result, onlyBad, given, first, sent, validated, candidate, verdict,
                   total, cur, other, syn, hq, db, op>>

quiz_recommendations ==
    /\ fn = "quiz" /\ Done /\ status = 0
    /\ hq.at = "invoked"
    /\ status' = quiz_answer(sig, result).status
    /\ body' = quiz_answer(sig, result).body
    /\ UNCHANGED <<fn, stack, sig, calls, resp, disp, result, onlyBad, given, first, sent, validated, candidate, verdict,
                   total, cur, other, syn, hq, db, op>>

Next ==
    \/ HistoryExhausted
    \/ HistoryCall
    \/ HistoryParse
    \/ HistoryUnwind
    \/ QuizExhausted
    \/ QuizCall
    \/ QuizParse
    \/ QuizUnwind
    \/ recommend
    \/ quiz_recommendations

Spec == Init /\ [][Next]_vars

-----------------------------------------------------------------------------
(* The same requests over every input of the bounded sets, the model      *)
(* drawing from three behaviours.                                          *)

InitInput == Start(PastEntryLists, ToReadLists, Profiles)

HistoryCallFew == HistoryCallOn(FewBehaviours)
QuizCallFew == QuizCallOn(FewBehaviours)

NextInput ==
    \/ HistoryExhausted
    \/ HistoryCallFew
    \/ HistoryParse
    \/ HistoryUnwind
    \/ QuizExhausted
    \/ QuizCallFew
    \/ QuizParse
    \/ QuizUnwind
    \/ recommend
    \/ quiz_recommendations

SpecInput == InitInput /\ [][NextInput]_vars

-----------------------------------------------------------------------------
(* The link validator on its own: one candidate, one call.                 *)

InitLink ==
    /\ candidate \in CandidateLinks
    /\ verdict = "none"
    /\ Elsewhere
    /\ fn = "history"
    /\ given = Args(<< >>, << >>, NoProfile)
    /\ stack = << >>
    /\ first = NoMessages
    /\ sent = NoMessages
    /\ validated = NoneValidated
    /\ sig = "none"
    /\ calls = 0
    /\ resp = NoResp
    /\ disp = "none"
    /\ result = << >>
    /\ onlyBad = TRUE
    /\ status = 0
    /\ body = [key |-> "none", recs |-> << >>]

\* validate_goodreads_link(link) (rec_engine.py:26-39)
ValidateLink ==
    /\ verdict = "none"
    /\ verdict' = validate_goodreads_link(candidate)
    /\ UNCHANGED <<fn, stack, sig, calls, resp, disp, result, onlyBad, status, body,
                   given, first, sent, validated, candidate,
                   total, cur, other, syn, hq, db, op>>

NextLink == ValidateLink

SpecLink == InitLink /\ [][NextLink]_vars

-----------------------------------------------------------------------------
(* Two requests dispatched in parallel.  Everything a request works on is  *)
(* a parameter or a local variable of its own call chain; the module-level *)
(* client is only read.  The request that is running holds the variables   *)
(* of the pipeline, the one that is waiting is kept in `other`.            *)

\* the parameters and locals of a request
Context(f, st, sg, c, rs, dp, rt, ob, s, b, g, fi, se, va) ==
    [fn |-> f, stack |-> st, sig |-> sg, calls |-> c, resp |-> rs, disp |-> dp,
     result |-> rt, onlyBad |-> ob, status |-> s, body |-> b, given |-> g,
     first |-> fi, sent |-> se, validated |-> va]

Active ==
    Context(fn, stack, sig, calls, resp, disp, result, onlyBad, status, body,
            given, first, sent, validated)

\* a request as the handler hands it to its function
Fresh(f, args) ==
    Context(f, <<Frame(0, "enter", args)>>, "none", 0, NoResp, "none", << >>, TRUE, 0,
            [key |-> "none", recs |-> << >>], args, NoMessages, NoMessages, NoneValidated)

OtherPast == <<Mapping(Emma, Austen, Reflected, Absent)>>
OtherProfile ==
    Profile(<< >>, "30min", Str(<<"deep">>), Str(<<"fun">>), <<"drama">>, <<"history">>)

FirstRequests ==
    {Fresh("history", Args(SamplePast, SampleToRead, NoProfile)),
     Fresh("quiz", Args(<< >>, << >>, SampleProfile))}
SecondRequests ==
    {Fresh("history", Args(OtherPast, << >>, NoProfile)),
     Fresh("quiz", Args(<< >>, << >>, OtherProfile))}

InitPair ==
    /\ \E c \in FirstRequests :
        /\ fn = c.fn /\ stack = c.stack /\ sig = c.sig /\ calls = c.calls
        /\ resp = c.resp /\ disp = c.disp /\ result = c.result
        /\ onlyBad = c.onlyBad /\ status = c.status /\ body = c.body
        /\ given = c.given /\ first = c.first /\ sent = c.sent
        /\ validated = c.validated
    /\ other \in SecondRequests
    /\ cur = 1
    /\ total = 0
    /\ candidate = Absent /\ verdict = "none"
    /\ syn = NoSynopsis /\ hq = HandlerInvoked /\ db = << >> /\ op = NoOp

\* the scheduler takes the running request off and puts the waiting one on
Switch ==
    /\ other # NoContext
    /\ fn' = other.fn /\ stack' = other.stack /\ sig' = other.sig
    /\ calls' = other.calls /\ resp' = other.resp /\ disp' = other.disp
    /\ result' = other.result /\ onlyBad' = other.onlyBad
    /\ status' = other.status /\ body' = other.body /\ given' = other.given
    /\ first' = other.first /\ sent' = other.sent /\ validated' = other.validated
    /\ other' = Active
    /\ cur' = 3 - cur
    /\ UNCHANGED <<total, candidate, verdict, syn, hq, db, op>>

NextPair ==
    \/ HistoryExhausted
    \/ HistoryCallFew
    \/ HistoryParse
    \/ HistoryUnwind
    \/ QuizExhausted
    \/ QuizCallFew
    \/ QuizParse
    \/ QuizUnwind
    \/ recommend
    \/ quiz_recommendations
    \/ Switch

SpecPair == InitPair /\ [][NextPair]_vars

-----------------------------------------------------------------------------
(* POST /quiz-recommendations (main.py:523-637): the body is checked, the  *)
(* profile is written, get_quiz_recommendations is called.                 *)

\* required_fields (main.py:560)
required_fields ==
    <<"genres", "reading_time", "content_preference", "motivation",
      "favorite_movies", "learning_interests">>
AllFields == {required_fields[i] : i \in 1..Len(required_fields)}

\* `not quiz_responses`
quiz_responses_falsy(qr) ==
    \/ qr.kind = "absent"
    \/ qr.kind = "object" /\ qr.present = {}

\* Lines 544-563.  0: the checks pass; 400: one of the four rejections;
\* 500: data.get on a body that is no object raises AttributeError, or
\* `field not in quiz_responses` on a number raises TypeError, and the
\* outer `except Exception` (line 635) answers.
quiz_validate(req) ==
    IF req.body \in {"none", "empty"} THEN 400
    ELSE IF req.body # "object" THEN 500
    ELSE IF ~truthy(req.user_id) THEN 400
    ELSE IF quiz_responses_falsy(req.quiz_responses) THEN 400
    ELSE IF req.quiz_responses.kind = "number" THEN 500
    ELSE IF \E i \in 1..Len(required_fields) :
                required_fields[i] \notin req.quiz_responses.present THEN 400
    ELSE 0

\* the inner try without its handler
save_failure_uncaught(exc) == FALSE

\* except Exception as e (main.py:618): the failure is printed and the
\* handler goes on
save_failure_caught(exc) == TRUE

\* goal_mapping.get(content_preference, ...) (main.py:585) raises TypeError
\* for a list or a dict, before the upsert
save_raises_before_write(profile) ==
    lookup_raises(IF profile.content_preference = Absent THEN EmptyString
                  ELSE profile.content_preference, ContentKeys)

\* what the upsert of line 610 does: the row is written, the call raises
\* and nothing is written, or it raises after the row was written
UpsertOutcomes == {"written", "raised", "written_raised"}

FullResponses(profile) == QuizResponses("object", AllFields, profile)
ListProfile ==
    Profile(<<"fiction">>, "30min", Arr(<<"light">>), Str(<<"escape">>),
            <<"drama">>, <<"history">>)

QuizRequests ==
    {Request(b, Absent, QuizResponses("absent", {}, NoProfile)) : b \in {"none", "empty", "array"}}
    \cup {Request("object", u, qr) :
            u \in {Absent, EmptyString, UserId},
            qr \in {QuizResponses("absent", {}, NoProfile),
                    QuizResponses("object", {}, NoProfile),
                    QuizResponses("number", {}, NoProfile),
                    FullResponses(SampleProfile),
                    FullResponses(ListProfile)}
                   \cup {QuizResponses("object", AllFields \ {f}, SampleProfile) :
                            f \in AllFields}}

InitQuiz ==
    /\ hq \in {Handler("received", req, "none", NoRow) : req \in QuizRequests}
    /\ fn = "quiz"
    /\ given = Args(<< >>, << >>, NoProfile)
    /\ stack = << >>
    /\ first = NoMessages /\ sent = NoMessages /\ validated = NoneValidated
    /\ sig = "none" /\ calls = 0 /\ resp = NoResp /\ disp = "none"
    /\ result = << >> /\ onlyBad = TRUE /\ status = 0
    /\ body = [key |-> "none", recs |-> << >>]
    /\ candidate = Absent /\ verdict = "none"
    /\ total = 0 /\ cur = 1 /\ other = NoContext
    /\ syn = NoSynopsis /\ db = << >> /\ op = NoOp

\* lines 544-563
QuizValidate ==
    /\ hq.at = "received"
    /\ LET v == quiz_validate(hq.req)
       IN  IF v = 0
           THEN /\ hq' = [hq EXCEPT !.at = "checked"]
                /\ UNCHANGED <<status, body>>
           ELSE /\ hq' = [hq EXCEPT !.at = "answered"]
                /\ status' = v
                /\ body' = [key |-> "message", recs |-> << >>]
    /\ UNCHANGED <<fn, stack, sig, calls, resp, disp, result, onlyBad, given, first, sent,
                   validated, candidate, verdict, total, cur, other, syn, db, op>>

\* lines 568-620: the profile row is upserted with quiz_completed = True
QuizSaveProfile ==
    /\ hq.at = "checked"
    /\ \E o \in UpsertOutcomes :
        LET profile == hq.req.quiz_responses.profile
            early == save_raises_before_write(profile)
            wrote == ~early /\ o \in {"written", "written_raised"}
            failed == early \/ o \in {"raised", "written_raised"}
            row == IF wrote THEN [quiz_completed |-> TRUE] ELSE hq.row
        IN  IF failed /\ ~save_failure_caught("Exception")
            THEN /\ hq' = [hq EXCEPT !.at = "answered", !.write = "failed", !.row = row]
                 /\ status' = 500
                 /\ body' = [key |-> "message", recs |-> << >>]
            ELSE /\ hq' = [hq EXCEPT !.at = "saved",
                                     !.write = IF failed THEN "failed" ELSE "ok",
                                     !.row = row]
                 /\ UNCHANGED <<status, body>>
    /\ UNCHANGED <<fn, stack, sig, calls, resp, disp, result, onlyBad, given, first, sent,
                   validated, candidate, verdict, total, cur, other, syn, db, op>>

\* recs_str = get_quiz_recommendations(quiz_responses) (line 625)
QuizInvoke ==
    /\ hq.at = "saved"
    /\ hq' = [hq EXCEPT !.at = "invoked"]
    /\ given' = Args(<< >>, << >>, hq.req.quiz_responses.profile)
    /\ stack' = <<Frame(0, "enter", given')>>
    /\ UNCHANGED <<fn, sig, calls, resp, disp, result, onlyBad, status, body, first, sent,
                   validated, candidate, verdict, total, cur, other, syn, db, op>>

NextQuiz ==
    \/ QuizValidate
    \/ QuizSaveProfile
    \/ QuizInvoke
    \/ QuizExhausted
    \/ QuizCallFew
    \/ QuizParse
    \/ QuizUnwind
    \/ quiz_recommendations

SpecQuiz == InitQuiz /\ [][NextQuiz]_vars

-----------------------------------------------------------------------------
(* The book_logs table and its three writers (src/core/logic.py).  The    *)
(* table is a sequence of rows; a row is a mapping with its user_id.       *)

\* most rows the table holds
MaxRows == 2

OtherUserId == Str(<<"u", "2">>)
Users == {UserId, OtherUserId}
Titles == {[book |-> Dune, author |-> Herbert], [book |-> Emma, author |-> Austen],
           [book |-> Dune, author |-> Austen]}
Reflections == {Sand, Reflected}

\* entries handed to save_book_entry: complete ones, without and with a
\* user_id of their own, entries that lack one field, and no mapping
SaveEntries ==
    {Mapping(t.book, t.author, r, u) :
        t \in Titles, r \in Reflections, u \in {Absent, OtherUserId}}
    \cup {Mapping(Absent, Herbert, Sand, Absent), Mapping(Dune, Absent, Sand, Absent),
          Mapping(Dune, Herbert, Absent, Absent), NotAMapping}

\* the check without the reflection
missing_fields_of_two(entry) ==
    {k \in {"book_name", "author_name"} : entry.f[k] = Absent}

\* [field for field in required_fields if field not in entry]
missing_fields(entry) ==
    {k \in {"book_name", "author_name", "reflection"} : entry.f[k] = Absent}

\* entry["user_id"] = user_id (logic.py:44)
with_user_id(entry, user_id) == [entry EXCEPT !.f = [@ EXCEPT !["user_id"] = user_id]]

\* what insert(entry).execute() does: the row is inserted and returned, the
\* call raises, it returns no data, or it returns no data for a row that
\* was inserted
InsertOutcomes == {"inserted", "raised", "no_data", "no_data_inserted"}

\* save_book_entry: "ok" it returns, "raised" an exception leaves it
save_book_entry(entry, user_id, outcome) ==
    IF entry.kind # "mapping" \/ missing_fields(entry) # {}
    THEN [ret |-> "raised", rows |-> << >>, data |-> << >>]
    ELSE LET data == IF outcome = "inserted" THEN <<with_user_id(entry, user_id)>>
                     ELSE << >>
         IN  [ret |-> IF outcome = "raised" \/ data = << >> THEN "raised" ELSE "ok",
              rows |-> IF outcome \in {"inserted", "no_data_inserted"}
                       THEN <<with_user_id(entry, user_id)>> ELSE << >>,
              data |-> data]

\* add_book after the call: 200, or the 500 of the outer handler
add_book_answer(ret) == IF ret = "ok" THEN 200 ELSE 500

\* the filter without the user
matches_any_user(row, book_name, author_name, user_id) ==
    /\ row.f["book_name"] = book_name
    /\ row.f["author_name"] = author_name

\* .eq("book_name", ...).eq("author_name", ...).eq("user_id", user_id)
matches(row, book_name, author_name, user_id) ==
    /\ row.f["book_name"] = book_name
    /\ row.f["author_name"] = author_name
    /\ row.f["user_id"] = user_id

\* response.data: the rows the filter selected
selected(rows, book_name, author_name, user_id) ==
    LET hit(row) == matches(row, book_name, author_name, user_id)
    IN  SelectSeq(rows, hit)

\* bool(response.data and len(response.data) > 0)
py_bool(data) == IF Len(data) > 0 THEN "True" ELSE "False"

delete_rows(rows, book_name, author_name, user_id) ==
    LET stays(row) == ~matches(row, book_name, author_name, user_id)
    IN  SelectSeq(rows, stays)

update_rows(rows, book_name, author_name, user_id, new) ==
    [i \in 1..Len(rows) |->
        IF matches(rows[i], book_name, author_name, user_id)
        THEN [rows[i] EXCEPT !.f = [@ EXCEPT !["book_name"] = new.f["book_name"],
                                             !["author_name"] = new.f["author_name"],
                                             !["reflection"] = new.f["reflection"]]]
        ELSE rows[i]]

InitStore ==
    /\ db = << >>
    /\ op = NoOp
    /\ fn = "none"
    /\ given = Args(<< >>, << >>, NoProfile)
    /\ stack = << >>
    /\ first = NoMessages /\ sent = NoMessages /\ validated = NoneValidated
    /\ sig = "none" /\ calls = 0 /\ resp = NoResp /\ disp = "none"
    /\ result = << >> /\ onlyBad = TRUE /\ status = 0
    /\ body = [key |-> "none", recs |-> << >>]
    /\ candidate = Absent /\ verdict = "none"
    /\ total = 0 /\ cur = 1 /\ other = NoContext
    /\ syn = NoSynopsis /\ hq = HandlerInvoked

\* save_book_entry(entry, user_id) (logic.py:13-58)
SaveBook ==
    /\ Len(db) < MaxRows
    /\ \E entry \in SaveEntries, u \in Users, o \in InsertOutcomes :
        LET r == save_book_entry(entry, u, o)
        IN  /\ db' = db \o r.rows
            /\ op' = Operation("save", u, entry, Absent, Absent, r.data, r.ret,
                               add_book_answer(r.ret), db)
    /\ UNCHANGED <<pipelineVars, total, cur, other, syn, hq>>

\* delete_book_entry(book_name, author_name, user_id) (logic.py:166-205)
DeleteBook ==
    /\ \E t \in Titles, u \in Users, raises \in BOOLEAN :
        IF raises
        THEN /\ db' = db
             /\ op' = Operation("delete", u, NotAMapping, t.book, t.author, << >>,
                                "raised", 0, db)
        ELSE /\ db' = delete_rows(db, t.book, t.author, u)
             /\ op' = Operation("delete", u, NotAMapping, t.book, t.author,
                                selected(db, t.book, t.author, u),
                                py_bool(selected(db, t.book, t.author, u)), 0, db)
    /\ UNCHANGED <<pipelineVars, total, cur, other, syn, hq>>

\* update_book_entry(original_book_name, original_author_name, book_name,
\* author_name, reflection, user_id) (logic.py:246-292)
UpdateBook ==
    /\ \E t \in Titles, u \in Users, raises \in BOOLEAN,
          new \in {Mapping(Emma, Austen, Reflected, Absent), Mapping(Dune, Herbert, Sand, Absent)} :
        IF raises
        THEN /\ db' = db
             /\ op' = Operation("update", u, new, t.book, t.author, << >>, "raised", 0, db)
        ELSE /\ db' = update_rows(db, t.book, t.author, u, new)
             /\ op' = Operation("update", u, new, t.book, t.author,
                                update_rows(selected(db, t.book, t.author, u),
                                            t.book, t.author, u, new),
                                py_bool(selected(db, t.book, t.author, u)), 0, db)
    /\ UNCHANGED <<pipelineVars, total, cur, other, syn, hq>>

NextStore ==
    \/ SaveBook
    \/ DeleteBook
    \/ UpdateBook

SpecStore == InitStore /\ [][NextStore]_vars

-----------------------------------------------------------------------------
(* generate_book_synopsis (rec_engine.py:356-422): one model call inside   *)
(* try ... except Exception, the text trimmed and unquoted, or a fallback. *)

Whitespace == {" ", LF, "TAB"}

RECURSIVE py_lstrip(_)
py_lstrip(text) ==
    IF text # << >> /\ Head(text) \in Whitespace THEN py_lstrip(Tail(text)) ELSE text

RECURSIVE py_rstrip(_)
py_rstrip(text) ==
    IF text # << >> /\ text[Len(text)] \in Whitespace
    THEN py_rstrip(SubSeq(text, 1, Len(text) - 1))
    ELSE text

\* str.strip()
py_strip(text) == py_rstrip(py_lstrip(text))

\* quotes taken off as long as there are any
strip_quotes_twice(synopsis) ==
    LET once == IF synopsis # << >> /\ Head(synopsis) = DQ /\ synopsis[Len(synopsis)] = DQ
                THEN SubSeq(synopsis, 2, Len(synopsis) - 1) ELSE synopsis
    IN  IF once # << >> /\ Head(once) = DQ /\ once[Len(once)] = DQ
        THEN SubSeq(once, 2, Len(once) - 1) ELSE once

\* if synopsis.startswith('"') and synopsis.endswith('"'): synopsis[1:-1]
strip_quotes(synopsis) ==
    IF synopsis # << >> /\ Head(synopsis) = DQ /\ synopsis[Len(synopsis)] = DQ
    THEN SubSeq(synopsis, 2, Len(synopsis) - 1)
    ELSE synopsis

\* the two fallback sentences (rec_engine.py:419-422)
fallback(source, author_name) ==
    IF source = "history"
    THEN <<"A great read by ">> \o author_name \o <<". Highly recommend checking it out!">>
    ELSE <<"Excited to read this book by ">> \o author_name
         \o <<". Looks like it's going to be amazing!">>

\* What the model does at the one call: the call raises ("error"), the
\* response has no choice ("no_choice": IndexError), its content is None
\* ("no_content": AttributeError on .strip()), or it has a text.
SynopsisOutcome(kind, text) == [kind |-> kind, text |-> text]
Blurb == <<"a", "b">>
SynopsisTexts ==
    { Blurb,
      <<DQ>> \o Blurb \o <<DQ>>,
      <<" ", DQ>> \o Blurb \o <<DQ, LF>>,
      <<DQ, DQ>> \o Blurb \o <<DQ, DQ>>,
      <<DQ, " ">> \o Blurb \o <<" ", DQ>>,
      <<" ">> \o Blurb \o <<LF>>,
      <<DQ>> \o Blurb,
      <<DQ>>,
      <<" ">>,
      << >> }
SynopsisBehaviours ==
    {SynopsisOutcome(k, << >>) : k \in {"error", "no_choice", "no_content"}}
    \cup {SynopsisOutcome("text", t) : t \in SynopsisTexts}

\* an exception is raised inside the try block
synopsis_raises(r) == r.kind # "text"

\* the handler narrowed to the errors of the call
synopsis_catches_call_errors(r) == r.kind = "error"

\* except Exception as e (rec_engine.py:416)
synopsis_catches(r) == TRUE

\* the value generate_book_synopsis returns, or the exception it lets out
generate_book_synopsis(r, author_name, source) ==
    IF synopsis_raises(r)
    THEN IF synopsis_catches(r)
         THEN [raised |-> FALSE, text |-> fallback(source, author_name)]
         ELSE [raised |-> TRUE, text |-> << >>]
    ELSE [raised |-> FALSE, text |-> strip_quotes(py_strip(r.text))]

InitSynopsis ==
    /\ syn \in { [at |-> "enter", book_name |-> b, author_name |-> a, source |-> src,
                  calls |-> 0, resp |-> SynopsisOutcome("none", << >>),
                  out |-> [raised |-> FALSE, text |-> << >>]] :
                  b \in {Dune.v, Emma.v}, a \in {Herbert.v, Austen.v},
                  src \in {"history", "future", "shelf"} }
    /\ total = 0 /\ cur = 1 /\ other = NoContext
    /\ hq = HandlerInvoked /\ db = << >> /\ op = NoOp
    /\ candidate = Absent /\ verdict = "none"
    /\ fn = "none"
    /\ given = Args(<< >>, << >>, NoProfile)
    /\ stack = << >>
    /\ first = NoMessages /\ sent = NoMessages /\ validated = NoneValidated
    /\ sig = "none" /\ calls = 0 /\ resp = NoResp /\ disp = "none"
    /\ result = << >> /\ onlyBad = TRUE /\ status = 0
    /\ body = [key |-> "none", recs |-> << >>]

\* client.chat.completions.create (rec_engine.py:395-407)
SynopsisCall ==
    /\ syn.at = "enter"
    /\ \E r \in SynopsisBehaviours :
        syn' = [syn EXCEPT !.at = "called", !.calls = @ + 1, !.resp = r]
    /\ total' = total + 1
    /\ UNCHANGED <<pipelineVars, cur, other, hq, db, op>>

\* lines 409-422: the text is read, trimmed and unquoted, or the handler
\* returns the fallback
SynopsisReturn ==
    /\ syn.at = "called"
    /\ syn' = [syn EXCEPT !.at = "returned",
                          !.out = generate_book_synopsis(syn.resp, syn.author_name, syn.source)]
    /\ UNCHANGED <<pipelineVars, total, cur, other, hq, db, op>>

NextSynopsis ==
    \/ SynopsisCall
    \/ SynopsisReturn

SpecSynopsis == InitSynopsis /\ [][NextSynopsis]_vars

-----------------------------------------------------------------------------
(* Claims *)

\* C1: get_recommendations, started with retry_count 0 against a model that
\* returns malformed JSON on every call, makes exactly MaxRetries (3) model
\* calls and then raises the terminal ValueError; it never makes a 4th call.
C1_RetryBound ==
    fn = "history" =>
        /\ calls <= MaxRetries
        /\ (onlyBad /\ Done) => (calls = MaxRetries /\ sig = "ValueError")

C1_Witness ==
    fn = "history" /\ onlyBad /\ Done /\ calls = MaxRetries /\ sig = "ValueError"

\* C2: a request of get_quiz_recommendations never issues more than 3 model
\* calls, and a success is only ever returned from one of the first 3 calls.
C2_QuizCallBound ==
    fn = "quiz" => calls <= MaxRetries

\* C3: every accepted response is returned as a list of exactly 3 elements,
\* each with a non-empty title, a non-empty author and a non-empty description.
NonEmptyString(j) == j.t = "string" /\ j.v # << >>

C3_OutputShape ==
    sig = "ret" =>
        /\ Len(result) = RequiredLen
        /\ \A i \in 1..Len(result) :
            /\ result[i].kind = "object"
            /\ \A k \in 1..Len(Required) : NonEmptyString(result[i].f[Required[k]])

\* C4: in every returned recommendation set each element that still has a
\* link key has a link the validator accepts, and an element whose link the
\* validator rejects is returned at its place without the link key, its
\* other fields untouched.
HasLinkKey(rec) == rec.kind = "object" /\ rec.f["link"] # Absent
LinkRejected(rec) ==
    HasLinkKey(rec) /\ ~(rec.f["link"].t = "string" /\ re_match_goodreads_pattern(rec.f["link"].v))

C4_LinksValidOrStripped ==
    sig = "ret" =>
        /\ Len(result) = Len(resp.items)
        /\ \A i \in 1..Len(result) :
            /\ HasLinkKey(result[i]) =>
                 /\ result[i].f["link"].t = "string"
                 /\ re_match_goodreads_pattern(result[i].f["link"].v)
            /\ LinkRejected(resp.items[i]) =>
                 /\ result[i].kind = "object"
                 /\ result[i].f["link"] = Absent
                 /\ \A k \in 1..Len(Required) :
                        result[i].f[Required[k]] = resp.items[i].f[Required[k]]

C4_Witness ==
    /\ sig = "ret"
    /\ \E i \in 1..Len(result) : LinkRejected(resp.items[i]) /\ ~HasLinkKey(result[i])
    /\ \E j \in 1..Len(result) : HasLinkKey(result[j])

\* C5: a response of 3 objects that all have title, author and description
\* is accepted whatever the JSON value of a failing link is: the link is
\* removed, no retry happens and the request does not fail.
WellFormedObjects(r) ==
    /\ r.kind = "json" /\ r.top = "list" /\ Len(r.items) = RequiredLen
    /\ \A i \in 1..Len(r.items) :
        /\ r.items[i].kind = "object"
        /\ \A k \in 1..Len(Required) : r.items[i].f[Required[k]] # Absent

C5_InvalidLinkNeverEscalates ==
    (WellFormedObjects(resp) /\ disp # "pending") => disp = "accepted"

\* C6: the caller gets a well-formed 3-element recommendation set (3 objects
\* with a string title, author and description) or an explicit error: a
\* failed request returns no array at all, the handlers answer 200 with the
\* recommendations array only on Success, and answer 500 with an error body
\* on every terminal failure.
WellFormedRecommendation(rec) ==
    /\ rec.kind = "object"
    /\ \A k \in 1..Len(Required) : rec.f[Required[k]].t = "string"

C6_SetOrExplicitError ==
    /\ (sig = "ret") =>
          /\ Len(result) = RequiredLen
          /\ \A i \in 1..Len(result) : WellFormedRecommendation(result[i])
    /\ (sig # "ret") => result = << >>
    /\ status \in {0, 200, 500}
    /\ (status = 200) =>
          /\ Done /\ sig = "ret"
          /\ body = [key |-> "recommendations", recs |-> result]
          /\ Len(body.recs) = RequiredLen
    /\ (status # 0 /\ sig # "ret") =>
          /\ status = 500
          /\ body.key \in {"error", "message"}
          /\ body.recs = << >>

\* C7: a response that is not JSON, or is JSON but not a list, or is a list
\* whose length is not 3, is never returned: the frame calls the function
\* again with retry_count + 1.
BadShape(r) ==
    \/ r.kind = "text"
    \/ r.kind = "json" /\ r.top # "list"
    \/ r.kind = "json" /\ r.top = "list" /\ Len(r.items) # RequiredLen

C7_BadShapeRetries ==
    [][ (Running /\ Top.at = "called" /\ BadShape(resp)) =>
            /\ Len(stack') = Len(stack) + 1
            /\ stack'[Len(stack')] = Frame(Top.rc + 1, "enter", Top.args)
            /\ sig' = "none"
            /\ result' = << >>
            /\ disp' = "retry" ]_vars

\* the first response was malformed and the second call is being made with
\* retry_count 1
C7_Witness ==
    onlyBad /\ calls = 2 /\ Running /\ Top = Frame(1, "called", given) /\ BadShape(resp)

\* C8: a parsed list of 3 elements in which some element lacks title, author
\* or description (an object without the key, or an element that is no
\* object at all) always sends the request to Retry: it is neither accepted
\* nor does it make the request fail with an exception.
LacksField(rec) ==
    rec.kind # "object" \/ \E k \in 1..Len(Required) : rec.f[Required[k]] = Absent

C8_MissingFieldRetries ==
    ( /\ resp.kind = "json" /\ resp.top = "list" /\ Len(resp.items) = RequiredLen
      /\ \E i \in 1..Len(resp.items) : LacksField(resp.items[i]) )
    => disp \notin {"accepted", "raised"}

C10_TwoOutcomes ==
    Done => sig \in {"ret", "ValueError"}

\* C11: when the model answers attempt k of get_recommendations (k = 1, 2
\* or 3, the k-1 earlier answers having been sent to Retry) with an array
\* of 3 objects that have a string title, author and description and, if
\* any, a string or null link, the function returns that array with only
\* the failing links removed, exactly k model calls have been made, and once
\* a response has been accepted no model call follows.
ValidRecommendation(rec) ==
    /\ rec.kind = "object"
    /\ \A k \in 1..Len(Required) : rec.f[Required[k]].t = "string"
    /\ rec.f["link"].t \in {"absent", "null", "string"}

ValidArray(r) ==
    /\ r.kind = "json" /\ r.top = "list" /\ Len(r.items) = RequiredLen
    /\ \A i \in 1..Len(r.items) : ValidRecommendation(r.items[i])

LinkFiltered(recs) ==
    [i \in 1..Len(recs) |->
        IF LinkRejected(recs[i])
        THEN WithExtras(Object(recs[i].f["title"], recs[i].f["author"],
                               recs[i].f["description"], Absent), recs[i].mem)
        ELSE recs[i]]

C11_ValidOnAttemptK ==
    [][ /\ (fn = "history" /\ Running /\ Top.at = "called" /\ ValidArray(resp)) =>
              /\ calls = Top.rc + 1
              /\ calls \in 1..MaxRetries
              /\ Len(stack) = calls
              /\ \A i \in 1..(Len(stack) - 1) : stack[i].at = "try"
              /\ stack' = Pop
              /\ sig' = "ret"
              /\ result' = LinkFiltered(resp.items)
              /\ calls' = calls
        /\ (fn = "history" /\ sig = "ret") =>
              (sig' = "ret" /\ calls' = calls /\ result' = result) ]_vars

\* the third attempt was answered with a valid array that has a failing link
C11_Witness ==
    /\ fn = "history" /\ Done /\ sig = "ret" /\ calls = MaxRetries
    /\ ValidArray(resp)
    /\ \E i \in 1..Len(resp.items) : LinkRejected(resp.items[i])
    /\ result = LinkFiltered(resp.items)

\* C12: of an accepted response, an object whose link is not a canonical
\* Goodreads book URL is returned without the link key and with its title,
\* author and description as they were, and every other object is returned
\* exactly as the model gave it.
C12_OnlyFailingLinkRemoved ==
    sig = "ret" =>
        /\ Len(result) = Len(resp.items)
        /\ \A i \in 1..Len(result) :
            IF LinkRejected(resp.items[i])
            THEN /\ result[i].f["link"] = Absent
                 /\ result[i].f["title"] = resp.items[i].f["title"]
                 /\ result[i].f["author"] = resp.items[i].f["author"]
                 /\ result[i].f["description"] = resp.items[i].f["description"]
                 /\ result[i].kind = "object"
            ELSE result[i] = resp.items[i]

\* one object with a link to another site, the other two with a Goodreads
\* link and with no link
C12_Witness ==
    /\ sig = "ret"
    /\ Cardinality({i \in 1..Len(resp.items) : LinkRejected(resp.items[i])}) = 1
    /\ \E i \in 1..Len(resp.items) :
          resp.items[i].f["link"] = OtherDomainLink /\ result[i].f["link"] = Absent
    /\ \E j \in 1..Len(resp.items) : result[j].f["link"] = GoodLink
    /\ \E j \in 1..Len(resp.items) : resp.items[j].f["link"] = Absent

\* C13: in get_recommendations a read or planned record that fails its
\* schema (no mapping, or a required field absent or not a string) is left
\* out and the others are processed: no ValidationError leaves the request,
\* the first invocation always reaches the model call, and the prompt sent
\* is the one built from exactly the conforming records, in their order.
Conforms(fields, e) ==
    /\ e.kind = "mapping"
    /\ \A i \in 1..Len(fields) : e.f[fields[i]].t = "string"

ConformsBooks(e) == Conforms(BooksFields, e)
ConformsToRead(e) == Conforms(ToReadFields, e)

C14_FieldsNonEmpty ==
    /\ \A i \in 1..Len(validated.prompt_data) :
         \A k \in 1..Len(BooksFields) :
            NonEmptyString(validated.prompt_data[i].f[BooksFields[k]])
    /\ \A i \in 1..Len(validated.to_read_data) :
         \A k \in 1..Len(ToReadFields) :
            NonEmptyString(validated.to_read_data[i].f[ToReadFields[k]])

\* C14 amended: every validated read entry has a string book_name,
\* author_name and reflection and every validated planned entry a string
\* book_name and author_name, and the string may be empty: a record whose
\* required fields are all strings is accepted even when one of them is "".
HasEmptyField(fields, e) == \E k \in 1..Len(fields) : e.f[fields[k]] = EmptyString

AcceptedAs(fields, e, data) ==
    \E j \in 1..Len(data) : \A k \in 1..Len(fields) : data[j].f[fields[k]] = e.f[fields[k]]

C14_FieldsAreStrings ==
    (fn = "history" /\ calls >= 1) =>
        /\ \A i \in 1..Len(validated.prompt_data) :
             \A k \in 1..Len(BooksFields) :
                validated.prompt_data[i].f[BooksFields[k]].t = "string"
        /\ \A i \in 1..Len(validated.to_read_data) :
             \A k \in 1..Len(ToReadFields) :
                validated.to_read_data[i].f[ToReadFields[k]].t = "string"
        /\ \A i \in 1..Len(given.past_entries) :
             (ConformsBooks(given.past_entries[i]) /\ HasEmptyField(BooksFields, given.past_entries[i]))
                => AcceptedAs(BooksFields, given.past_entries[i], validated.prompt_data)
        /\ \A i \in 1..Len(given.to_read) :
             (ConformsToRead(given.to_read[i]) /\ HasEmptyField(ToReadFields, given.to_read[i]))
                => AcceptedAs(ToReadFields, given.to_read[i], validated.to_read_data)

\* a read entry with an empty title and a planned entry with an empty author
\* were validated and sent
C14_Witness ==
    /\ fn = "history" /\ calls >= 1
    /\ \E i \in 1..Len(validated.prompt_data) :
          validated.prompt_data[i].f["book_name"] = EmptyString
    /\ \E i \in 1..Len(validated.to_read_data) :
          validated.to_read_data[i].f["author_name"] = EmptyString

\* C15: validation is idempotent.  A record that came out of validation is
\* returned as it is when validated again; a record with exactly the
\* schema's fields, all strings, comes out as it went in; the validated
\* list is the list of the conforming records, cut to the schema's fields,
\* so a record that misses a required field is left out, and no error
\* reaches the caller.
OnlyFields(fields, e) ==
    [kind |-> "mapping",
     f |-> [k \in RecordKeys |->
              IF \E i \in 1..Len(fields) : fields[i] = k THEN e.f[k] ELSE Absent]]

Missing(fields, e) == \E i \in 1..Len(fields) : e.f[fields[i]] = Absent

C17_RetriesSameInput ==
    /\ \A i \in 1..Len(stack) : stack[i].args = given
    /\ calls >= 1 => sent = first
    /\ calls >= 1 =>
         sent = IF fn = "history"
                THEN history_messages(SelectSeq(given.past_entries, ConformsBooks),
                                      SelectSeq(given.to_read, ConformsToRead))
                ELSE quiz_messages(given.quiz_responses)

\* the third call of a history request with a read and a planned record
C17_Witness ==
    /\ fn = "history" /\ calls = MaxRetries /\ Running /\ Top.at = "called"
    /\ Len(validated.prompt_data) >= 1 /\ Len(validated.to_read_data) >= 1
    /\ sent = first /\ sent # NoMessages

\* C18 as stated: the system message carries the persona, the task framing
\* and the output-shape contract, and the user message the serialized
\* history or profile, in both functions.
ContractTokens == {TASK_3_JSON, KEY_TITLE, KEY_AUTHOR, KEY_DESCRIPTION, KEY_LINK, RETURN_ONLY}
QuizContractTokens == {QUIZ_3_JSON, KEY_TITLE, KEY_AUTHOR, QUIZ_KEY_DESCRIPTION, QUIZ_RETURN_ONLY}

CanonicalBookLink(s) ==
    \E sc \in {HTTP, HTTP \o <<"s">>}, w \in {<< >>, WWW}, n \in 1..Len(s) :
        /\ SubSeq(s, 1, n - 1) = sc \o SCHEME_SEP \o w \o GOODREADS_COM \o BOOK_SHOW
        /\ s[n] \in Digits

ExampleValid ==
    <<"h", "t", "t", "p", "s", ":", "/", "/", "w", "w", "w", ".",
      "g", "o", "o", "d", "r", "e", "a", "d", "s", ".", "c", "o", "m",
      "/", "b", "o", "o", "k", "/", "s", "h", "o", "w", "/",
      "1", "2", "3", "4", "5", "-", "t", "i", "t", "l", "e">>

ExampleInvalid ==
    <<"h", "t", "t", "p", "s", ":", "/", "/",
      "g", "o", "o", "d", "r", "e", "a", "d", "s", ".", "c", "o", "m",
      "/", "b", "o", "o", "k", "/", "s", "h", "o", "w", "/", "a", "b", "c">>

C19_ValidatorExact ==
    verdict # "none" =>
        /\ candidate \in {Null, EmptyString} => verdict = "False"
        /\ candidate.t = "string" => (verdict = "True" <=> CanonicalBookLink(candidate.v))
        /\ candidate.t = "string" => verdict \in {"True", "False"}
        /\ candidate = Str(ExampleValid) => verdict = "True"
        /\ candidate = Str(ExampleInvalid) => verdict = "False"

\* the validator has judged the first example
C19_Witness ==
    candidate = Str(ExampleValid) /\ verdict = "True"

\* C20 as stated: a link that differs from a valid link only in the letter
\* case of its scheme or host is judged valid.
CaseVariantOfValid(s) ==
    \E sc \in {HTTP_UPPER, HTTP_UPPER \o <<"S">>, <<"H", "t", "t", "p", "s">>, HTTP, HTTP \o <<"s">>},
       w \in {<< >>, WWW, WWW_UPPER},
       h \in {GOODREADS_COM, GOODREADS_COM_UPPER, GOODREADS_COM_MIXED},
       t \in Tails :
        /\ t # << >> /\ t[1] \in Digits
        /\ s = sc \o SCHEME_SEP \o w \o h \o BOOK_SHOW \o t
        /\ s # Lower(s)

C20_CaseInsensitive ==
    (verdict # "none" /\ candidate.t = "string" /\ CaseVariantOfValid(candidate.v))
        => verdict = "True"

\* C20 amended: the pattern is matched case-sensitively.  A link that
\* differs from a valid link in the letter case of its scheme or host is
\* judged invalid; its lower-case form is judged valid.
C20_CaseSensitive ==
    (verdict # "none" /\ candidate.t = "string" /\ CaseVariantOfValid(candidate.v))
        => /\ verdict = "False"
           /\ validate_goodreads_link(Str(Lower(candidate.v))) = "True"

\* HTTPS://WWW.GOODREADS.COM/book/show/1 has been judged
C20_Witness ==
    /\ candidate = Str(HTTP_UPPER \o <<"S">> \o SCHEME_SEP \o WWW_UPPER
                       \o GOODREADS_COM_UPPER \o BOOK_SHOW \o <<"1">>)
    /\ verdict = "False"

\* C21: in build_quiz_prompt a content_preference or motivation that is a
\* key of its table is written with the table's phrase, and every other
\* string, or a missing field, with the generic phrase: for string and
\* missing values the prompt is built, nothing is raised and the model call
\* is made.
StringOrMissing(j) == j.t \in {"string", "absent"}

GenericContent == "varied content based on mood"
GenericMotivation == "general reading satisfaction"

C21_UnknownFallsBack ==
    (/\ fn = "quiz"
     /\ StringOrMissing(given.quiz_responses.content_preference)
     /\ StringOrMissing(given.quiz_responses.motivation)) =>
        /\ sig # "TypeError"
        /\ (Done \/ Len(stack) > 1 \/ Top.at # "enter") => calls >= 1
        /\ calls >= 1 =>
             /\ Has(sent.user, GenericContent) <=>
                    (given.quiz_responses.content_preference \notin
                        {Str(<<"light">>), Str(<<"balanced">>), Str(<<"deep">>)})
             /\ Has(sent.user, GenericMotivation) <=>
                    (given.quiz_responses.motivation \notin
                        {Str(<<"entertainment">>), Str(<<"learning">>),
                         Str(<<"escape">>), Str(<<"inspiration">>)})

\* a content_preference outside the table and no motivation: the prompt was
\* sent with both generic phrases
C21_Witness ==
    /\ fn = "quiz" /\ calls >= 1
    /\ given.quiz_responses.content_preference = Str(<<"anything">>)
    /\ given.quiz_responses.motivation = Absent
    /\ Has(sent.user, GenericContent) /\ Has(sent.user, GenericMotivation)
    /\ Has(sent.user, "Not specified")

\* C22 as stated: generate_book_synopsis makes at most one model call; on
\* any failure it raises nothing and returns the fallback of its source and
\* author; on success it returns the model text, or the model text without
\* one layer of surrounding double quotes.
Quoted(text) == Len(text) >= 1 /\ text[1] = DQ /\ text[Len(text)] = DQ
Unquoted(text) == IF Quoted(text) THEN SubSeq(text, 2, Len(text) - 1) ELSE text

FallbackText(source, author_name) ==
    IF source = "history"
    THEN <<"A great read by ">> \o author_name \o <<". Highly recommend checking it out!">>
    ELSE <<"Excited to read this book by ">> \o author_name
         \o <<". Looks like it's going to be amazing!">>

SynopsisFailureAbsorbed ==
    /\ syn.calls <= 1
    /\ syn.at = "returned" =>
         /\ syn.calls = 1
         /\ ~syn.out.raised
         /\ syn.resp.kind # "text" =>
                syn.out.text = FallbackText(syn.source, syn.author_name)

C22_SynopsisTextOrUnquoted ==
    syn.at # "none" =>
        /\ SynopsisFailureAbsorbed
        /\ (syn.at = "returned" /\ syn.resp.kind = "text") =>
               syn.out.text \in {syn.resp.text, Unquoted(syn.resp.text)}

\* C22 amended: on success the model text is first trimmed of surrounding
\* whitespace, and then one layer of surrounding double quotes, if there
\* is one, is removed; the rest is as stated.
TrimOf(t, text) ==
    \E i \in 1..(Len(text) + 1), j \in 0..Len(text) :
        /\ t = SubSeq(text, i, j)
        /\ \A k \in 1..(i - 1) : text[k] \in Whitespace
        /\ \A k \in (j + 1)..Len(text) : text[k] \in Whitespace
        /\ i <= j => (text[i] \notin Whitespace /\ text[j] \notin Whitespace)

C22_SynopsisTrimmedThenUnquoted ==
    syn.at # "none" =>
        /\ SynopsisFailureAbsorbed
        /\ (syn.at = "returned" /\ syn.resp.kind = "text") =>
               \E t \in {SubSeq(syn.resp.text, i, j) :
                            i \in 1..(Len(syn.resp.text) + 1), j \in 0..Len(syn.resp.text)} :
                   TrimOf(t, syn.resp.text) /\ syn.out.text = Unquoted(t)

\* the model wrote the quoted text with a blank before it and a line break
\* after it: the bare text is returned
C22_Witness ==
    /\ syn.at = "returned"
    /\ syn.resp = SynopsisOutcome("text", <<" ", DQ>> \o Blurb \o <<DQ, LF>>)
    /\ syn.out.text = Blurb

\* C23: two recommendation requests that run interleaved share no mutable
\* state.  In every interleaving each request numbers its own attempts
\* (frame i of its call chain has retry_count i-1 and its own arguments),
\* stays within its own retry bound and its own number of model calls, sends
\* the messages of its own input, and answers from the last response it
\* received itself; a step of the running request leaves the waiting one as
\* it was.
OwnCallBound(f) == IF f = "history" THEN MaxRetries ELSE 2 ^ MaxRetries - 1

OwnMessages(c) ==
    IF c.fn = "history"
    THEN history_messages(validate_entries(BooksFields, c.given.past_entries).data,
                          validate_entries(ToReadFields, c.given.to_read).data)
    ELSE quiz_messages(c.given.quiz_responses)

OwnOutcome(c) ==
    IF c.disp = "accepted"
    THEN /\ ValidArray(c.resp)
         /\ c.status = 200
         /\ c.body = [key |-> "recommendations", recs |-> LinkFiltered(c.resp.items)]
    ELSE c.status = 500

RequestOnItsOwn(c) ==
    /\ \A i \in 1..Len(c.stack) :
          /\ c.stack[i].rc = i - 1
          /\ c.stack[i].args = c.given
    /\ Len(c.stack) <= MaxRetries + 1
    /\ c.calls <= OwnCallBound(c.fn)
    /\ c.calls > 0 => c.sent = OwnMessages(c)
    /\ c.status # 0 => OwnOutcome(c)

C23_RequestsIndependent ==
    [][ /\ RequestOnItsOwn(Active) /\ RequestOnItsOwn(other)
        /\ RequestOnItsOwn(Active') /\ RequestOnItsOwn(other')
        /\ total' = calls' + other'.calls
        /\ cur' = cur => other' = other
        /\ cur' # cur => (other' = Active /\ Active' = other) ]_vars

\* both requests have answered: the first after three calls with an error,
\* the second, which started later and made one call in between, with the
\* array of its one response
C23_Witness ==
    /\ cur = 1 /\ other # NoContext
    /\ fn = "history" /\ status = 500 /\ calls = MaxRetries
    /\ other.fn = "history" /\ other.status = 200 /\ other.calls = 1
    /\ total = MaxRetries + 1

\* C24: in get_recommendations the system message is the built prompt up to
\* its first line break and is the persona sentence for every input: no
\* field of a read or planned record, a line break in it included, changes
\* the system message or puts text into it, and system message, line break
\* and user message together are the built prompt.
HasLineBreak(rec) ==
    \E k \in DOMAIN rec.f : rec.f[k].t = "string" /\ Has(rec.f[k].v, LF)

C24_SystemIsPersona ==
    (fn = "history" /\ calls > 0) =>
        LET prompt == build_prompt_from_data(validated.prompt_data, validated.to_read_data)
        IN  /\ sent.system = <<PERSONA>>
            /\ first.system = <<PERSONA>>
            /\ sent.system \o <<LF>> \o sent.user = prompt
            /\ \A k \in 1..Len(prompt) :
                   (prompt[k] = LF /\ \A j \in 1..(k - 1) : prompt[j] # LF) =>
                       sent.system = SubSeq(prompt, 1, k - 1)

\* a read record whose reflection has a line break went into the prompt
C24_Witness ==
    /\ fn = "history" /\ calls > 0
    /\ \E i \in 1..Len(validated.prompt_data) : HasLineBreak(validated.prompt_data[i])
    /\ sent.system = <<PERSONA>>
    /\ Len(validated.to_read_data) > 0

\* C25: sanitizing an accepted response removes nothing but failing link
\* fields: the 3 elements keep their order, every key other than link, a
\* key the model added beyond title, author and description included,
\* keeps its value, and a link that passes the validator is returned
\* unchanged.
PassingLink(rec) ==
    HasLinkKey(rec) /\ rec.f["link"].t = "string" /\ CanonicalBookLink(rec.f["link"].v)

C25_OnlyFailingLinksRemoved ==
    sig = "ret" =>
        /\ Len(result) = RequiredLen
        /\ Len(resp.items) = RequiredLen
        /\ \A i \in 1..RequiredLen :
            /\ result[i].kind = resp.items[i].kind
            /\ result[i].mem = resp.items[i].mem
            /\ \A k \in 1..Len(Required) :
                   result[i].f[Required[k]] = resp.items[i].f[Required[k]]
            /\ PassingLink(resp.items[i]) => result[i].f["link"] = resp.items[i].f["link"]
            /\ result[i].f["link"] # resp.items[i].f["link"] =>
                   (result[i].f["link"] = Absent /\ ~PassingLink(resp.items[i]))

\* an object with added members and a link to another site came second,
\* after one with a Goodreads link and before one without a link
C25_Witness ==
    /\ sig = "ret"
    /\ PassingLink(resp.items[1]) /\ result[1] = resp.items[1]
    /\ resp.items[2].mem = Extras /\ resp.items[2].f["link"] = OtherDomainLink
    /\ result[2].mem = Extras /\ result[2].f["link"] = Absent
    /\ resp.items[3].f["link"] = Absent /\ resp.items[3].kind = "object"

\* C26: input validation in get_recommendations keeps every valid record
\* exactly once and in input order and strips every field that is not in
\* the schema: the records that go into the prompt carry only book_name,
\* author_name and reflection (read) or book_name and author_name
\* (planned), so a store field such as user_id never reaches the model.
Occurs(piece, text) ==
    \E i \in 1..(Len(text) - Len(piece) + 1) :
        SubSeq(text, i, i + Len(piece) - 1) = piece

Projected(fields, entries, keep(_)) ==
    LET valid == SelectSeq(entries, keep)
    IN  [i \in 1..Len(valid) |-> OnlyFields(fields, valid[i])]

C26_ValidKeptUnknownStripped ==
    (fn = "history" /\ calls > 0) =>
        /\ validated.prompt_data = Projected(BooksFields, given.past_entries, ConformsBooks)
        /\ validated.to_read_data = Projected(ToReadFields, given.to_read, ConformsToRead)
        /\ \A i \in 1..Len(validated.prompt_data) :
               validated.prompt_data[i].f["user_id"] = Absent
        /\ \A i \in 1..Len(validated.to_read_data) :
               /\ validated.to_read_data[i].f["user_id"] = Absent
               /\ validated.to_read_data[i].f["reflection"] = Absent
        /\ ~Occurs(UserId.v, sent.system) /\ ~Occurs(UserId.v, sent.user)

\* two valid rows of the store with their user_id, the same row twice, and
\* a planned row that has a reflection
C26_Witness ==
    /\ fn = "history" /\ calls > 0
    /\ Len(given.past_entries) = 2
    /\ given.past_entries[1] = given.past_entries[2]
    /\ given.past_entries[1].f["user_id"] = UserId
    /\ Len(validated.prompt_data) = 2
    /\ Len(given.to_read) = 1
    /\ given.to_read[1].f["reflection"] = Sand /\ given.to_read[1].f["user_id"] = UserId
    /\ Len(validated.to_read_data) = 1

\* C27: the /quiz-recommendations handler writes the user's profile with
\* quiz_completed = True before it invokes the model, and the two steps are
\* independent: the function is called whether the write succeeded or
\* failed, and an answer of status 500 from the recommendation step leaves
\* a written quiz_completed = True in place.
WriteBeforeModel ==
    /\ hq.at = "invoked" => hq.write \in {"ok", "failed"}
    /\ (calls > 0 \/ Running) => hq.at = "invoked"
    /\ hq.write = "ok" => hq.row.quiz_completed
    /\ (hq.write = "failed" /\ status # 0) => hq.at = "invoked"

C27_ProfileWriteThenModel ==
    [][ /\ WriteBeforeModel /\ WriteBeforeModel'
        /\ hq.at = "checked" => (hq'.at = "saved" /\ calls' = 0 /\ stack' = << >>)
        /\ hq.at = "saved" => (hq'.at = "invoked" /\ Running')
        /\ hq.row.quiz_completed => hq'.row.quiz_completed ]_vars

\* the profile was written and every one of the model calls then failed
C27_Witness ==
    /\ hq.at = "invoked" /\ hq.write = "ok" /\ hq.row.quiz_completed
    /\ status = 500 /\ calls = 2 ^ MaxRetries - 1

\* the write failed and the recommendations were returned all the same
C27_FailedWriteThenAnswer ==
    /\ hq.at = "invoked" /\ hq.write = "failed" /\ ~hq.row.quiz_completed
    /\ status = 200 /\ calls = 1

\* C28: the /quiz-recommendations handler rejects with status 400 every
\* request whose body is absent, whose user_id is absent, or whose
\* quiz_responses lacks any of the six fields; on such a rejection no
\* profile write and no model call happens.
Lacking(req) ==
    \/ req.body = "none"
    \/ req.user_id = Absent
    \/ req.quiz_responses.kind # "object"
    \/ req.quiz_responses.present # AllFields

C28_IncompleteRejected ==
    (hq.at # "received" /\ Lacking(hq.req)) =>
        /\ hq.at = "answered"
        /\ status = 400
        /\ hq.write = "none" /\ ~hq.row.quiz_completed
        /\ calls = 0 /\ stack = << >>

\* the same with the answer left open: no incomplete request gets past the
\* checks, whatever its status
C28_IncompleteNeverProcessed ==
    (hq.at # "received" /\ Lacking(hq.req)) =>
        /\ hq.at = "answered" /\ status \in {400, 500}
        /\ hq.write = "none" /\ ~hq.row.quiz_completed
        /\ calls = 0 /\ stack = << >>

\* an object body whose quiz_responses is a number was answered 500
C28_NumberAnswered500 ==
    /\ hq.at = "answered" /\ status = 500
    /\ hq.req.body = "object" /\ hq.req.user_id = UserId
    /\ hq.req.quiz_responses.kind = "number"

\* an array body was answered 500
C28_ArrayAnswered500 ==
    /\ hq.at = "answered" /\ status = 500 /\ hq.req.body = "array"

\* C29: save_book_entry inserts nothing when the entry lacks any of
\* book_name, author_name or reflection and raises instead, the table
\* staying as it was; on every successful save the inserted row carries the
\* caller's user_id; and an insert that returns no data is reported as an
\* exception, never as success.
LacksSaveField(entry) ==
    \E i \in 1..Len(BooksFields) : entry.f[BooksFields[i]] = Absent

C29_SaveChecked ==
    op.kind = "save" =>
        /\ LacksSaveField(op.entry) => (op.ret = "raised" /\ db = op.before)
        /\ op.ret = "ok" =>
             /\ Len(db) = Len(op.before) + 1
             /\ SubSeq(db, 1, Len(op.before)) = op.before
             /\ db[Len(db)].f["user_id"] = op.user
             /\ \A i \in 1..Len(BooksFields) :
                    db[Len(db)].f[BooksFields[i]] = op.entry.f[BooksFields[i]]
             /\ op.status = 200
        /\ op.data = << >> => (op.ret = "raised" /\ op.status = 500)
        /\ op.ret \in {"ok", "raised"}

\* an entry without a reflection was handed over while the table had a row
C29_Witness ==
    /\ op.kind = "save" /\ op.ret = "raised"
    /\ op.entry = Mapping(Dune, Herbert, Absent, Absent)
    /\ Len(db) = 1 /\ db = op.before

\* an entry that names another user was saved under the caller's user_id
C29_SavedUnderCaller ==
    /\ op.kind = "save" /\ op.ret = "ok"
    /\ op.entry.f["user_id"] = OtherUserId /\ op.user = UserId
    /\ db[Len(db)].f["user_id"] = UserId

\* C30: after any sequence of save, delete and update operations by several
\* users, delete_book_entry and update_book_entry called for user u change
\* only rows whose user_id is u and whose book_name and author_name equal
\* the given ones; the rows of every other user are unchanged, and the
\* operation returns True if and only if at least one row was changed.
Hit(row) ==
    /\ row.f["user_id"] = op.user
    /\ row.f["book_name"] = op.book
    /\ row.f["author_name"] = op.author
Spared(row) == ~Hit(row)
OfOthers(row) == row.f["user_id"] # op.user

C30_OnlyOwnMatchingRows ==
    op.kind \in {"delete", "update"} =>
        IF op.ret = "raised" THEN db = op.before
        ELSE /\ op.ret \in {"True", "False"}
             /\ op.ret = "True" <=> (\E i \in 1..Len(op.before) : Hit(op.before[i]))
             /\ SelectSeq(db, OfOthers) = SelectSeq(op.before, OfOthers)
             /\ op.kind = "delete" => db = SelectSeq(op.before, Spared)
             /\ op.kind = "update" =>
                    /\ Len(db) = Len(op.before)
                    /\ \A i \in 1..Len(db) :
                          IF Hit(op.before[i])
                          THEN /\ db[i].f["user_id"] = op.user
                               /\ \A k \in 1..Len(BooksFields) :
                                      db[i].f[BooksFields[k]] = op.entry.f[BooksFields[k]]
                          ELSE db[i] = op.before[i]

\* two users hold the same title; one of them deleted theirs
C30_Witness ==
    /\ op.kind = "delete" /\ op.ret = "True" /\ op.user = UserId
    /\ Len(op.before) = 2 /\ Len(db) = 1
    /\ db[1].f["user_id"] = OtherUserId
    /\ db[1].f["book_name"] = op.book /\ db[1].f["author_name"] = op.author

====
